---------------------------- MODULE Spec2Model ----------------------------
(***************************************************************************)
(* Voxel world and collision subsystem of voxel_battle (src/src/logic.rs,  *)
(* src/src/state.rs).                                                      *)
(*                                                                         *)
(* Numbers.  Voxel coordinates are integers.  World-space f32 values       *)
(* (positions, sizes, velocities, voxel_size) are fixed-point integers     *)
(* with Res steps per world unit, so 1.0 is Res and 0.25 is Res \div 4;    *)
(* times (delta, dash_cooldown) are fixed-point integers with Sec steps    *)
(* per second.  A half (size/2) is never formed: comparisons are made on   *)
(* doubled values.  The grid and collision operators take multiples of     *)
(* 0.25 only and their arithmetic is exact.  The motion operators round    *)
(* each product to a multiple of 1/Res toward zero where f32 rounds to 24  *)
(* bits; the values the properties speak of (15.0, 0.8, 0.6, 0.2, 22.5)    *)
(* are exact in the model.                                                 *)
(***************************************************************************)
EXTENDS Integers, Sequences, FiniteSets, TLC

VARIABLES
    pc,         \* position of main(): "start" before init(), "loop" after
    world,      \* GameState.world
    players,    \* GameState.players: id -> PlayerState
    editor,     \* GameState.editor: active, build_mode
    nwrites,    \* number of operations that have written the grid so far
    lastCall,   \* the last operation performed, its arguments and its result
    nticks,     \* number of calls of update_player_position so far
    dashClock,  \* per player: the delta run since its last dash start
    player_inputs   \* GameState.player_inputs: the entries [id, movement] in
                    \* the order in which the HashMap iterates over them

vars == <<pc, world, players, editor, nwrites, lastCall, nticks, dashClock,
          player_inputs>>

-----------------------------------------------------------------------------
(* Bounds of the model *)

\* World::default() builds a 25 x 25 x 25 grid; the model uses a smaller one.
GridWidth == 3
GridHeight == 2
GridDepth == 2
\* Cap on the number of grid-writing operations in one behaviour.
MaxWrites == 2
\* Cap on the number of calls of update_player_position in one behaviour.
MaxTicks == 5
\* Width of the grid the players move on: room for a dash, which covers 3
\* world units in 0.2 seconds, from the centre.
ArenaWidth == 9
\* Number of gamepads that can be connected (the program looks at four).
MaxGamepads == 1
\* Cap on the number of frames of update() in one behaviour, where all
\* players or all phases of a frame are modelled.
MaxFrames == 2

\* Fixed-point steps per world unit (hundredths, not a bound: the player
\* size 0.5 and its half 0.25 must be exact).
Res == 4 * 25
\* Fixed-point steps per second (hundredths: 0.8, 0.6 and 0.03 are exact).
Sec == 4 * 25

-----------------------------------------------------------------------------
(* state.rs *)

Empty == "Empty"
Ground == "Ground"
Wall == "Wall"
VoxelType == {Empty, Ground, Wall}

Voxel(x, y, z, t) == [position |-> <<x, y, z>>, voxel_type |-> t]

\* World::default(), with the model's dimensions
WorldDefault ==
    [width |-> GridWidth, height |-> GridHeight, depth |-> GridDepth,
     voxels |-> <<>>, voxel_size |-> Res]

\* World::default(), with the dimensions of the wider grid
ArenaDefault == [WorldDefault EXCEPT !.width = ArenaWidth]

Vec3Zero == <<0, 0, 0>>

\* PlayerState::default() (colours left out)
PlayerDefault ==
    [position |-> <<25 * Res, Res, 25 * Res>>,
     size |-> <<Res \div 2, Res, Res \div 2>>,
     velocity |-> Vec3Zero,
     acceleration |-> Vec3Zero,
     is_dashing |-> FALSE,
     dash_cooldown |-> 0,
     dash_direction |-> Vec3Zero,
     pre_dash_velocity |-> Vec3Zero,
     is_ready |-> FALSE]

\* EditorState::default() (camera and hovered_voxel left out)
EditorDefault == [active |-> FALSE, build_mode |-> TRUE]

-----------------------------------------------------------------------------
(* logic.rs: the voxel grid *)

\* A bounds test that admits the coordinate one past the end on x.
MutIsValidPositionOffByOne(w, x, y, z) ==
    x >= 0 /\ x <= w.width /\ y >= 0 /\ y < w.height /\ z >= 0 /\ z < w.depth

IsValidPosition(w, x, y, z) ==
    x >= 0 /\ x < w.width /\ y >= 0 /\ y < w.height /\ z >= 0 /\ z < w.depth

\* Index of the first element of vs at position <<x, y, z>>, 0 if there is none
\* (Iterator::find over world.voxels).
RECURSIVE FindFrom(_, _, _, _, _)
FindFrom(vs, i, x, y, z) ==
    IF i > Len(vs) THEN 0
    ELSE IF vs[i].position[1] = x /\ vs[i].position[2] = y /\ vs[i].position[3] = z
         THEN i
         ELSE FindFrom(vs, i + 1, x, y, z)

\* A find that compares x and y only.
MutFindXY(vs, x, y, z) ==
    IF \E i \in 1..Len(vs) : vs[i].position[1] = x /\ vs[i].position[2] = y
    THEN CHOOSE i \in 1..Len(vs) :
            /\ vs[i].position[1] = x /\ vs[i].position[2] = y
            /\ \A j \in 1..(i - 1) : ~(vs[j].position[1] = x /\ vs[j].position[2] = y)
    ELSE 0

Find(vs, x, y, z) == FindFrom(vs, 1, x, y, z)

GetVoxel(w, x, y, z) ==
    IF IsValidPosition(w, x, y, z)
    THEN LET i == Find(w.voxels, x, y, z)
         IN  IF i # 0 THEN w.voxels[i].voxel_type ELSE Empty
    ELSE Empty

\* A set_voxel that removes the entry when the type is Empty.
MutSetVoxelRemoves(w, x, y, z, t) ==
    IF IsValidPosition(w, x, y, z)
    THEN LET i == Find(w.voxels, x, y, z)
         IN  IF i # 0
             THEN IF t = Empty
                  THEN [w EXCEPT !.voxels =
                           SubSeq(w.voxels, 1, i - 1) \o SubSeq(w.voxels, i + 1, Len(w.voxels))]
                  ELSE [w EXCEPT !.voxels[i].voxel_type = t]
             ELSE IF t # Empty
                  THEN [w EXCEPT !.voxels = Append(w.voxels, Voxel(x, y, z, t))]
                  ELSE w
    ELSE w

\* A set_voxel that always pushes a new entry.
MutSetVoxelAlwaysPush(w, x, y, z, t) ==
    IF IsValidPosition(w, x, y, z)
    THEN IF t # Empty
         THEN [w EXCEPT !.voxels = Append(w.voxels, Voxel(x, y, z, t))]
         ELSE w
    ELSE w

SetVoxel(w, x, y, z, t) ==
    IF IsValidPosition(w, x, y, z)
    THEN LET i == Find(w.voxels, x, y, z)
         IN  IF i # 0
             THEN [w EXCEPT !.voxels[i].voxel_type = t]
             ELSE IF t # Empty
                  THEN [w EXCEPT !.voxels = Append(w.voxels, Voxel(x, y, z, t))]
                  ELSE w
    ELSE w


-----------------------------------------------------------------------------
(* logic.rs: init *)

\* for z in z0..depth { set_voxel(world, x, 0, z, Ground) }
RECURSIVE FloorRow(_, _, _)
FloorRow(w, x, z) ==
    IF z >= w.depth THEN w
    ELSE FloorRow(SetVoxel(w, x, 0, z, Ground), x, z + 1)

\* for x in x0..width { for z in z0..depth { ... } }
RECURSIVE FloorFrom(_, _, _)
FloorFrom(w, x, z0) ==
    IF x >= w.width THEN w
    ELSE FloorFrom(FloorRow(w, x, z0), x + 1, z0)

\* An init whose inner loop starts at 1.
MutInitWorldSkipsRow(w) == FloorFrom([w EXCEPT !.voxels = <<>>], 0, 1)

\* The world part of init(): a default world (of the dimensions of w) with
\* the floor layer
InitWorld(w) == FloorFrom([w EXCEPT !.voxels = <<>>], 0, 0)

-----------------------------------------------------------------------------
(* logic.rs: check_voxel_collision *)

Abs(a) == IF a < 0 THEN -a ELSE a

\* (a / b).floor() and (a / b).ceil() for b > 0
Floor(a, b) == a \div b
Ceil(a, b) == -((-a) \div b)

None == [some |-> FALSE]
Some(v) == [some |-> TRUE, position |-> v.position, voxel_type |-> v.voxel_type]

\* The bounding box in voxel coordinates, lines 230-235
MinCell(w, position, size, axis) == Floor(position[axis], w.voxel_size)
MaxCell(w, position, size, axis) == Ceil(position[axis], w.voxel_size)

\* player_bottom_voxel_y, lines 238-239
PlayerBottomVoxelY(w, position, size) ==
    Floor(2 * position[2] - size[2], 2 * w.voxel_size)

\* The loops of lines 258-268: the first (x, z), x outer and z inner, whose
\* cell at height by is not Ground; None when there is none (has_ground).
RECURSIVE FirstNonGround(_, _, _, _, _, _, _)
FirstNonGround(w, by, x, z, maxX, minZ, maxZ) ==
    IF x > maxX THEN None
    ELSE IF z > maxZ THEN FirstNonGround(w, by, x + 1, minZ, maxX, minZ, maxZ)
    ELSE LET t == GetVoxel(w, x, by, z)
         IN  IF t # Ground
             THEN Some(Voxel(x, by, z, t))
             ELSE FirstNonGround(w, by, x, z + 1, maxX, minZ, maxZ)

\* dx < size.x/2 + voxel_size/2 and the same on y and z, lines 286-293
\* (also lines 453-459), on doubled values
BoxOverlap(w, position, size, x, y, z) ==
    /\ 2 * Abs(position[1] - x * w.voxel_size) < size[1] + w.voxel_size
    /\ 2 * Abs(position[2] - y * w.voxel_size) < size[2] + w.voxel_size
    /\ 2 * Abs(position[3] - z * w.voxel_size) < size[3] + w.voxel_size

\* The loops of lines 272-302: the first (x, y, z), x outer, then y, then z,
\* that is a Wall and overlaps the box.
RECURSIVE FirstWall(_, _, _, _, _, _, _, _)
FirstWall(w, position, size, x, y, z, lo, hi) ==
    IF x > hi[1] THEN None
    ELSE IF y > hi[2] THEN FirstWall(w, position, size, x + 1, lo[2], lo[3], lo, hi)
    ELSE IF z > hi[3] THEN FirstWall(w, position, size, x, y + 1, lo[3], lo, hi)
    ELSE IF GetVoxel(w, x, y, z) = Wall /\ BoxOverlap(w, position, size, x, y, z)
         THEN Some(Voxel(x, y, z, Wall))
         ELSE FirstWall(w, position, size, x, y, z + 1, lo, hi)

\* A check that scans for walls before it looks at the ground.
MutCheckWallFirst(w, position, size) ==
    LET lo == [a \in 1..3 |-> MinCell(w, position, size, a)]
        hi == [a \in 1..3 |-> MaxCell(w, position, size, a)]
        by == PlayerBottomVoxelY(w, position, size)
        wall == FirstWall(w, position, size, lo[1], lo[2], lo[3], lo, hi)
    IN  IF wall.some THEN wall
        ELSE FirstNonGround(w, by, lo[1], lo[3], hi[1], lo[3], hi[3])

\* A check whose wall scan leaves out the overlap test of lines 286-293.
MutCheckNoOverlapTest(w, position, size) ==
    LET lo == [a \in 1..3 |-> MinCell(w, position, size, a)]
        hi == [a \in 1..3 |-> MaxCell(w, position, size, a)]
        by == PlayerBottomVoxelY(w, position, size)
        ground == FirstNonGround(w, by, lo[1], lo[3], hi[1], lo[3], hi[3])
        walls == {c \in (lo[1]..hi[1]) \X (lo[2]..hi[2]) \X (lo[3]..hi[3]) :
                      GetVoxel(w, c[1], c[2], c[3]) = Wall}
        first == CHOOSE c \in walls : \A d \in walls :
                     \/ c[1] < d[1]
                     \/ c[1] = d[1] /\ c[2] < d[2]
                     \/ c[1] = d[1] /\ c[2] = d[2] /\ c[3] <= d[3]
    IN  IF ground.some THEN ground
        ELSE IF walls = {} THEN None
        ELSE Some(Voxel(first[1], first[2], first[3], Wall))

CheckVoxelCollision(w, position, size) ==
    LET lo == [a \in 1..3 |-> MinCell(w, position, size, a)]
        hi == [a \in 1..3 |-> MaxCell(w, position, size, a)]
        by == PlayerBottomVoxelY(w, position, size)
        ground == FirstNonGround(w, by, lo[1], lo[3], hi[1], lo[3], hi[3])
    IN  IF ground.some THEN ground
        ELSE FirstWall(w, position, size, lo[1], lo[2], lo[3], lo, hi)

-----------------------------------------------------------------------------
(* logic.rs: update_player_position *)

\* a * b / c rounded toward zero, c > 0
MulDiv(a, b, c) ==
    LET n == a * b
    IN  IF n >= 0 THEN n \div c ELSE -((-n) \div c)

Min(a, b) == IF a <= b THEN a ELSE b

Vec3Add(u, v) == <<u[1] + v[1], u[2] + v[2], u[3] + v[3]>>
Vec3Sub(u, v) == <<u[1] - v[1], u[2] - v[2], u[3] - v[3]>>
\* v * (n / d)
Vec3Scale(v, n, d) == <<MulDiv(v[1], n, d), MulDiv(v[2], n, d), MulDiv(v[3], n, d)>>
\* Vector3::lerp: u + (v - u) * amount, amount = n / d
Vec3Lerp(u, v, n, d) == Vec3Add(u, Vec3Scale(Vec3Sub(v, u), n, d))

\* The numbers of update_player_position
DashCooldownTime == (8 * Sec) \div 10      \* 0.8, line 327
DashActiveUntil == (6 * Sec) \div 10       \* 0.6, line 411
TransitionTime == (3 * Sec) \div 100       \* 0.03, line 415
DashSpeed == 15                            \* line 336
DashTargetSpeed == 20                      \* line 379
AccelerationRate == 3                      \* lines 390-394
Friction == 5                              \* line 404
MovementSpeed == 5                         \* init, line 23

\* 1 / sqrt(2) in steps of 1 / Res
InvSqrt2 == (Res * 7071) \div 10000

\* Vector2::normalized of a keyboard movement (components -1, 0, 1), in
\* steps of 1 / Res
Normalized(movement) ==
    IF movement[1] # 0 /\ movement[2] # 0
    THEN <<movement[1] * InvSqrt2, movement[2] * InvSqrt2>>
    ELSE <<movement[1] * Res, movement[2] * Res>>

\* Lines 310-312
CooldownStep(p, delta) ==
    IF p.dash_cooldown > 0 THEN [p EXCEPT !.dash_cooldown = @ - delta] ELSE p

\* A trigger condition that leaves the cooldown out.
MutDashConditionNoCooldown(p, movement, is_dash_pressed) ==
    is_dash_pressed /\ ~p.is_dashing /\ movement # <<0, 0>>

\* The condition of line 325
DashCondition(p, movement, is_dash_pressed) ==
    /\ is_dash_pressed
    /\ ~p.is_dashing
    /\ p.dash_cooldown <= 0
    /\ movement # <<0, 0>>

\* Lines 325-337
DashTrigger(p, movement, is_dash_pressed) ==
    IF DashCondition(p, movement, is_dash_pressed)
    THEN LET n == Normalized(movement)
             dash_direction == <<n[1], 0, n[2]>>
         IN  [p EXCEPT !.is_dashing = TRUE,
                       !.dash_cooldown = DashCooldownTime,
                       !.dash_direction = dash_direction,
                       !.pre_dash_velocity = p.velocity,
                       !.velocity = Vec3Scale(dash_direction, DashSpeed, 1)]
    ELSE p

\* A target velocity that puts movement.y on the y axis.
MutTargetVelocityVertical(p, movement) ==
    IF p.is_dashing
    THEN Vec3Scale(p.dash_direction, DashTargetSpeed, 1)
    ELSE <<MulDiv(movement[1] * MovementSpeed * Res, 3, 2),
           MulDiv(movement[2] * MovementSpeed * Res, 3, 2), 0>>

\* A target velocity without the factor 1.5.
MutTargetVelocityNoBoost(p, movement) ==
    IF p.is_dashing
    THEN Vec3Scale(p.dash_direction, DashTargetSpeed, 1)
    ELSE <<movement[1] * MovementSpeed * Res, 0, movement[2] * MovementSpeed * Res>>

\* Lines 377-387; movement_speed * 1.5 is movement_speed * 3 / 2
TargetVelocity(p, movement) ==
    IF p.is_dashing
    THEN Vec3Scale(p.dash_direction, DashTargetSpeed, 1)
    ELSE <<MulDiv(movement[1] * MovementSpeed * Res, 3, 2), 0,
           MulDiv(movement[2] * MovementSpeed * Res, 3, 2)>>

\* An acceleration step that also runs during a dash.
MutAccelerateInDash(p, target_velocity, delta) ==
    LET acceleration ==
            Vec3Scale(Vec3Sub(target_velocity, p.velocity), AccelerationRate, 1)
    IN  [p EXCEPT !.velocity = Vec3Add(@, Vec3Scale(acceleration, delta, Sec))]

\* Lines 397-400
Accelerate(p, target_velocity, delta) ==
    IF ~p.is_dashing
    THEN LET acceleration ==
                 Vec3Scale(Vec3Sub(target_velocity, p.velocity), AccelerationRate, 1)
         IN  [p EXCEPT !.velocity = Vec3Add(@, Vec3Scale(acceleration, delta, Sec))]
    ELSE p

\* A friction step that does not look at the target velocity.
MutFrictionWithInput(p, target_velocity, delta) ==
    IF ~p.is_dashing
    THEN [p EXCEPT !.velocity = Vec3Lerp(@, Vec3Zero, Friction * delta, Sec)]
    ELSE p

\* Lines 403-406
ApplyFriction(p, target_velocity, delta) ==
    IF target_velocity = Vec3Zero /\ ~p.is_dashing
    THEN [p EXCEPT !.velocity = Vec3Lerp(@, Vec3Zero, Friction * delta, Sec)]
    ELSE p

\* A dash end that fires once the cooldown is spent.
MutDashEndAtZero(p, delta) ==
    IF p.is_dashing
    THEN LET cd == p.dash_cooldown - delta
         IN  IF cd <= 0
             THEN [p EXCEPT !.dash_cooldown = cd, !.is_dashing = FALSE]
             ELSE [p EXCEPT !.dash_cooldown = cd]
    ELSE p

\* Lines 409-422; t * 5.0 with t = min((0.6 - cd) / 0.03, 1.0) is
\* min(5 * (0.6 - cd), 5 * 0.03) / 0.03
DashEnd(p, delta) ==
    IF p.is_dashing
    THEN LET cd == p.dash_cooldown - delta
         IN  IF cd <= DashActiveUntil
             THEN [p EXCEPT !.dash_cooldown = cd,
                            !.is_dashing = FALSE,
                            !.velocity =
                                Vec3Lerp(@, p.pre_dash_velocity,
                                         Min(5 * (DashActiveUntil - cd), 5 * TransitionTime),
                                         TransitionTime)]
             ELSE [p EXCEPT !.dash_cooldown = cd]
    ELSE p

\* A movement step that commits the candidate position whatever the check
\* returns.
MutMoveIgnoresCollision(w, p, delta) ==
    LET moving == p.velocity # Vec3Zero /\ delta # 0
        new_position == Vec3Add(p.position, Vec3Scale(p.velocity, delta, Sec))
        collision == IF moving THEN CheckVoxelCollision(w, new_position, p.size) ELSE None
    IN  [moving |-> moving, candidate |-> new_position, collision |-> collision,
         player |-> IF moving THEN [p EXCEPT !.position = new_position] ELSE p]

\* A movement step without the zero-length test of line 427.
MutMoveAlwaysChecks(w, p, delta) ==
    LET new_position == Vec3Add(p.position, Vec3Scale(p.velocity, delta, Sec))
        collision == CheckVoxelCollision(w, new_position, p.size)
    IN  [moving |-> TRUE, candidate |-> new_position, collision |-> collision,
         player |-> IF ~collision.some THEN [p EXCEPT !.position = new_position]
                    ELSE [p EXCEPT !.velocity = Vec3Zero, !.is_dashing = FALSE]]

\* Lines 425-438.  movement.length() > 0.0: the product velocity * delta is
\* non-zero exactly when both factors are.  The result holds whether the
\* check was called (moving), its argument and its result, and the player.
Move(w, p, delta) ==
    LET moving == p.velocity # Vec3Zero /\ delta # 0
        new_position == Vec3Add(p.position, Vec3Scale(p.velocity, delta, Sec))
        collision == IF moving THEN CheckVoxelCollision(w, new_position, p.size) ELSE None
    IN  [moving |-> moving, candidate |-> new_position, collision |-> collision,
         player |-> IF ~moving THEN p
                    ELSE IF ~collision.some THEN [p EXCEPT !.position = new_position]
                    ELSE [p EXCEPT !.velocity = Vec3Zero, !.is_dashing = FALSE]]

\* The body of the loop of update_player_position for one player (lines
\* 308-439, colours left out): the player after each step, in order.
UpdatePlayer(w, p, movement, is_dash_pressed, delta) ==
    LET cooled == CooldownStep(p, delta)
        triggered == DashTrigger(cooled, movement, is_dash_pressed)
        target_velocity == TargetVelocity(triggered, movement)
        accelerated == Accelerate(triggered, target_velocity, delta)
        slowed == ApplyFriction(accelerated, target_velocity, delta)
        ended == DashEnd(slowed, delta)
        moved == Move(w, ended, delta)
    IN  [movement |-> movement, is_dash_pressed |-> is_dash_pressed,
         start |-> p, cooled |-> cooled, triggered |-> triggered,
         ended |-> ended, moving |-> moved.moving, candidate |-> moved.candidate,
         collision |-> moved.collision, final |-> moved.player]

-----------------------------------------------------------------------------
(* logic.rs: handle_voxel_input, the pick (lines 467-523) *)

\* A ray is [position, direction, neg_zero_y].  position is in steps of
\* 1 / Res.  direction has components -1, 0, 1: it stands for the unit vector
\* of that direction, and a ray parameter t of the model is the distance
\* along the ray times the length of direction, which orders the hits of one
\* ray as the distance does.  neg_zero_y is the sign bit of a zero
\* direction.y.

Max(a, b) == IF a >= b THEN a ELSE b

\* An f32 infinity, above every finite ray parameter of the model
Inf == 1000 * Res

\* i32::MAX and i32::MIN, the results of casting the infinities
I32Max == 2147483647
I32Min == -I32Max - 1

\* The ray parameters at which the ray enters and leaves the slab lo..hi of
\* one axis: (lo - o) / d and (hi - o) / d, d being 1 or -1.  With d = 0
\* the quotients are infinite: the ray is in the slab at every parameter if
\* lo < o < hi and at none otherwise.
SlabNear(o, d, lo, hi) ==
    IF d = 0 THEN (IF lo < o /\ o < hi THEN -Inf ELSE Inf)
    ELSE Min((lo - o) * d, (hi - o) * d)

SlabFar(o, d, lo, hi) ==
    IF d = 0 THEN (IF lo < o /\ o < hi THEN Inf ELSE -Inf)
    ELSE Max((lo - o) * d, (hi - o) * d)

\* raylib's GetRayCollisionBox(ray, BoundingBox(lo, hi)) as line 497 calls
\* it: hit, distance and normal.  A ray that starts inside the box is
\* reversed, and its distance and normal negated.  The normal is the vector
\* from the box centre to the hit point, scaled by 2.01 / size and cut to
\* integers, before its normalisation.
GetRayCollisionBox(ray, lo, hi) ==
    LET inside == \A a \in 1..3 : lo[a] < ray.position[a] /\ ray.position[a] < hi[a]
        s == IF inside THEN -1 ELSE 1
        d == <<s * ray.direction[1], s * ray.direction[2], s * ray.direction[3]>>
        near == Max(Max(SlabNear(ray.position[1], d[1], lo[1], hi[1]),
                        SlabNear(ray.position[2], d[2], lo[2], hi[2])),
                    SlabNear(ray.position[3], d[3], lo[3], hi[3]))
        far == Min(Min(SlabFar(ray.position[1], d[1], lo[1], hi[1]),
                       SlabFar(ray.position[2], d[2], lo[2], hi[2])),
                   SlabFar(ray.position[3], d[3], lo[3], hi[3]))
        n(a) == MulDiv(2 * (ray.position[a] + d[a] * near) - lo[a] - hi[a], 201,
                       200 * (hi[a] - lo[a]))
    IN  IF far < 0 \/ near > far
        THEN [hit |-> FALSE]
        ELSE [hit |-> TRUE, distance |-> s * near,
              normal |-> <<s * n(1), s * n(2), s * n(3)>>]

\* The bounding box of the voxel at cell c, lines 484-494
VoxelBoxMin(w, c) == <<c[1] * w.voxel_size, c[2] * w.voxel_size, c[3] * w.voxel_size>>
VoxelBoxMax(w, c) ==
    <<(c[1] + 1) * w.voxel_size, (c[2] + 1) * w.voxel_size, (c[3] + 1) * w.voxel_size>>

NoCollision == [some |-> FALSE]

\* A loop that keeps the first voxel hit.
RECURSIVE MutFirstHitFrom(_, _, _)
MutFirstHitFrom(w, ray, i) ==
    IF i > Len(w.voxels) THEN NoCollision
    ELSE IF w.voxels[i].voxel_type = Empty THEN MutFirstHitFrom(w, ray, i + 1)
    ELSE LET c == GetRayCollisionBox(ray, VoxelBoxMin(w, w.voxels[i].position),
                                     VoxelBoxMax(w, w.voxels[i].position))
         IN  IF c.hit
             THEN [some |-> TRUE, cell |-> w.voxels[i].position,
                   distance |-> c.distance, normal |-> c.normal]
             ELSE MutFirstHitFrom(w, ray, i + 1)

\* The loop of lines 474-508 from voxel i on, closest being closest_collision
RECURSIVE ClosestFrom(_, _, _, _)
ClosestFrom(w, ray, i, closest) ==
    IF i > Len(w.voxels) THEN closest
    ELSE IF w.voxels[i].voxel_type = Empty THEN ClosestFrom(w, ray, i + 1, closest)
    ELSE LET c == GetRayCollisionBox(ray, VoxelBoxMin(w, w.voxels[i].position),
                                     VoxelBoxMax(w, w.voxels[i].position))
         IN  IF c.hit /\ (~closest.some \/ c.distance < closest.distance)
             THEN ClosestFrom(w, ray, i + 1,
                              [some |-> TRUE, cell |-> w.voxels[i].position,
                               distance |-> c.distance, normal |-> c.normal])
             ELSE ClosestFrom(w, ray, i + 1, closest)

\* (a as f32 * inf).floor() as i32 for the ray's start o and direction d on
\* one axis: the product is an infinity of the sign of d, and NaN for d = 0;
\* the cast saturates, and gives 0 for NaN.
CastOfInfinite(d) == IF d > 0 THEN I32Max ELSE IF d < 0 THEN I32Min ELSE 0

\* Lines 511-523: the ray against the plane y = 0.  t = -position.y /
\* direction.y.  With direction.y = 0 the quotient is NaN for position.y = 0
\* and else an infinity, whose sign is that of -position.y, reversed for a
\* negative zero.
GroundPlaneHit(w, ray) ==
    LET o == ray.position
        d == ray.direction
    IN  IF d[2] # 0
        THEN LET t == (-o[2]) * d[2]
                 x == Floor(o[1] + d[1] * t, w.voxel_size)
                 z == Floor(o[3] + d[3] * t, w.voxel_size)
             IN  IF t > 0 /\ x >= 0 /\ x < w.width /\ z >= 0 /\ z < w.depth
                 THEN [some |-> TRUE, cell |-> <<x, 0, z>>, distance |-> t,
                       normal |-> <<0, 1, 0>>]
                 ELSE NoCollision
        ELSE LET positive == IF ray.neg_zero_y THEN o[2] > 0 ELSE o[2] < 0
                 x == CastOfInfinite(d[1])
                 z == CastOfInfinite(d[3])
             IN  IF positive /\ x >= 0 /\ x < w.width /\ z >= 0 /\ z < w.depth
                 THEN [some |-> TRUE, cell |-> <<x, 0, z>>, distance |-> Inf,
                       normal |-> <<0, 1, 0>>]
                 ELSE NoCollision

\* t of line 513: "finite" with its value, or what the division by a zero
\* direction.y gives, "nan", "inf" or "-inf"
GroundPlaneT(ray) ==
    IF ray.direction[2] # 0
    THEN [kind |-> "finite", value |-> (-ray.position[2]) * ray.direction[2]]
    ELSE IF ray.position[2] = 0 THEN [kind |-> "nan", value |-> 0]
    ELSE IF (IF ray.neg_zero_y THEN ray.position[2] > 0 ELSE ray.position[2] < 0)
    THEN [kind |-> "inf", value |-> Inf]
    ELSE [kind |-> "-inf", value |-> -Inf]

\* t > 0.0 of line 514 holds, so that lines 515-517 compute hit_point and
\* the cell from t; a NaN compares false
GroundCellComputed(ray) ==
    GroundPlaneT(ray).kind # "nan" /\ GroundPlaneT(ray).value > 0

\* A pick that reports the first voxel hit in storage order.
MutPickFirstHit(w, ray) ==
    LET closest == MutFirstHitFrom(w, ray, 1)
    IN  IF closest.some THEN closest ELSE GroundPlaneHit(w, ray)

\* closest_collision after lines 471-523
Pick(w, ray) ==
    LET closest == ClosestFrom(w, ray, 1, NoCollision)
    IN  IF closest.some THEN closest ELSE GroundPlaneHit(w, ray)

-----------------------------------------------------------------------------
(* logic.rs: editing *)

\* An occupancy test that finds no player.
MutNoPlayerOccupies(w, ps, x, y, z) == FALSE

IsVoxelOccupiedByPlayer(w, ps, x, y, z) ==
    \E id \in DOMAIN ps : BoxOverlap(w, ps[id].position, ps[id].size, x, y, z)

\* A neighbour on the side the normal points away from.
MutFaceNeighbourInward(x, y, z, normal) ==
    IF 2 * normal[1] > 1 THEN <<x - 1, y, z>>
    ELSE IF 2 * normal[1] < -1 THEN <<x + 1, y, z>>
    ELSE IF 2 * normal[2] > 1 THEN <<x, y - 1, z>>
    ELSE IF 2 * normal[2] < -1 THEN <<x, y + 1, z>>
    ELSE IF 2 * normal[3] > 1 THEN <<x, y, z - 1>>
    ELSE <<x, y, z + 1>>

\* The cell next to (x, y, z) across the face with this normal, lines 587-592.
\* A normal component is in world units: n > 0.5 is 2 * n > 1.
FaceNeighbour(x, y, z, normal) ==
    IF 2 * normal[1] > 1 THEN <<x + 1, y, z>>
    ELSE IF 2 * normal[1] < -1 THEN <<x - 1, y, z>>
    ELSE IF 2 * normal[2] > 1 THEN <<x, y + 1, z>>
    ELSE IF 2 * normal[2] < -1 THEN <<x, y - 1, z>>
    ELSE IF 2 * normal[3] > 1 THEN <<x, y, z + 1>>
    ELSE <<x, y, z - 1>>

\* player_height, lines 570-574 and 600-604
PlayerHeight(w, ps) == IF 0 \in DOMAIN ps THEN ps[0].position[2] ELSE w.voxel_size

\* A placed type that is Ground up to the player's height.
MutPlacedTypeGroundAtHeight(w, ps, y) ==
    IF y = 0 \/ y * Res <= PlayerHeight(w, ps) THEN Ground ELSE Wall

\* Type of a placed voxel, lines 577-581 and 607-611; y as f32 is y * Res
PlacedType(w, ps, y) ==
    IF y = 0 \/ y * Res < PlayerHeight(w, ps) THEN Ground ELSE Wall

\* A left click that in remove mode removes the voxel across the face hit.
MutLeftClickRedirectsRemoval(w, ps, build_mode, pick) ==
    LET x == pick.cell[1]
        y == pick.cell[2]
        z == pick.cell[3]
        existing_voxel == GetVoxel(w, x, y, z)
        n == FaceNeighbour(x, y, z, pick.normal)
    IN  IF build_mode
        THEN IF existing_voxel = Empty
             THEN IF ~IsVoxelOccupiedByPlayer(w, ps, x, y, z)
                  THEN SetVoxel(w, x, y, z, PlacedType(w, ps, y))
                  ELSE w
             ELSE IF /\ n[1] >= 0 /\ n[1] < w.width
                     /\ n[2] >= 0 /\ n[2] < w.height
                     /\ n[3] >= 0 /\ n[3] < w.depth
                     /\ GetVoxel(w, n[1], n[2], n[3]) = Empty
                     /\ ~IsVoxelOccupiedByPlayer(w, ps, n[1], n[2], n[3])
                  THEN SetVoxel(w, n[1], n[2], n[3], PlacedType(w, ps, n[2]))
                  ELSE w
        ELSE IF /\ GetVoxel(w, n[1], n[2], n[3]) # Empty
                /\ ~IsVoxelOccupiedByPlayer(w, ps, n[1], n[2], n[3])
             THEN SetVoxel(w, n[1], n[2], n[3], Empty)
             ELSE w

\* Lines 563-622: the left click
LeftClick(w, ps, build_mode, pick) ==
    LET x == pick.cell[1]
        y == pick.cell[2]
        z == pick.cell[3]
        existing_voxel == GetVoxel(w, x, y, z)
    IN  IF build_mode
        THEN IF existing_voxel = Empty
             THEN IF ~IsVoxelOccupiedByPlayer(w, ps, x, y, z)
                  THEN SetVoxel(w, x, y, z, PlacedType(w, ps, y))
                  ELSE w
             ELSE LET n == FaceNeighbour(x, y, z, pick.normal)
                  IN  IF /\ n[1] >= 0 /\ n[1] < w.width
                         /\ n[2] >= 0 /\ n[2] < w.height
                         /\ n[3] >= 0 /\ n[3] < w.depth
                         /\ GetVoxel(w, n[1], n[2], n[3]) = Empty
                         /\ ~IsVoxelOccupiedByPlayer(w, ps, n[1], n[2], n[3])
                      THEN SetVoxel(w, n[1], n[2], n[3], PlacedType(w, ps, n[2]))
                      ELSE w
        ELSE IF existing_voxel # Empty /\ ~IsVoxelOccupiedByPlayer(w, ps, x, y, z)
             THEN SetVoxel(w, x, y, z, Empty)
             ELSE w

\* editor.hovered_voxel as lines 530-551 store it, with build_mode as the
\* toggle of this call left it and the grid as it is before the click
HoveredVoxel(w, build_mode, pick) ==
    IF ~pick.some THEN [some |-> FALSE]
    ELSE LET x == pick.cell[1]
             y == pick.cell[2]
             z == pick.cell[3]
         IN  IF build_mode /\ GetVoxel(w, x, y, z) # Empty
             THEN [some |-> TRUE, cell |-> FaceNeighbour(x, y, z, pick.normal)]
             ELSE [some |-> TRUE, cell |-> <<x, y, z>>]

\* A handle_voxel_input that places and removes voxels whether the editor
\* is active or not.
MutHandleVoxelInputInactive(w, ps, ed, pick, left, right_pressed, ctrl) ==
    LET build_mode == IF right_pressed THEN ~ed.build_mode ELSE ed.build_mode
        ed2 == [ed EXCEPT !.build_mode = build_mode]
    IN  IF ~pick.some
        THEN [world |-> w, editor |-> ed2]
        ELSE LET x == pick.cell[1]
                 y == pick.cell[2]
                 z == pick.cell[3]
                 existing_voxel == GetVoxel(w, x, y, z)
                 w1 == IF left = "pressed" THEN LeftClick(w, ps, build_mode, pick) ELSE w
                 w2 == IF /\ ~build_mode /\ ctrl /\ left # "up"
                          /\ existing_voxel # Empty
                          /\ ~IsVoxelOccupiedByPlayer(w1, ps, x, y, z)
                       THEN SetVoxel(w1, x, y, z, Empty)
                       ELSE w1
             IN  [world |-> w2, editor |-> ed2]

\* handle_voxel_input from the toggle of build_mode on (lines 525-632), given
\* closest_collision (pick) and the mouse and keyboard state:
\* left is "up", "pressed" (pressed this frame) or "down" (held).
\* hovered_voxel, which only the renderer reads, is not part of the state;
\* HoveredVoxel gives the value stored by the call.
HandleVoxelInputOp(w, ps, ed, pick, left, right_pressed, ctrl) ==
    LET build_mode == IF right_pressed THEN ~ed.build_mode ELSE ed.build_mode
        ed2 == [ed EXCEPT !.build_mode = build_mode]
    IN  IF ~ed.active \/ ~pick.some
        THEN [world |-> w, editor |-> ed2]
        ELSE LET x == pick.cell[1]
                 y == pick.cell[2]
                 z == pick.cell[3]
                 existing_voxel == GetVoxel(w, x, y, z)
                 w1 == IF left = "pressed" THEN LeftClick(w, ps, build_mode, pick) ELSE w
                 w2 == IF /\ ~build_mode /\ ctrl /\ left # "up"
                          /\ existing_voxel # Empty
                          /\ ~IsVoxelOccupiedByPlayer(w1, ps, x, y, z)
                       THEN SetVoxel(w1, x, y, z, Empty)
                       ELSE w1
             IN  [world |-> w2, editor |-> ed2]

-----------------------------------------------------------------------------
(* Inputs *)

\* Voxel coordinates handed to get_voxel and set_voxel: every cell of the
\* grid, and the cells one step outside it below and above each axis.
Cells == {<<x, y, z>> : x \in 0..(GridWidth - 1), y \in 0..(GridHeight - 1),
                        z \in 0..(GridDepth - 1)}

Coords ==
    Cells \cup {<<-1, 0, 0>>, <<GridWidth, 0, 0>>, <<0, -1, 0>>, <<0, GridHeight, 0>>,
                <<0, 0, -1>>, <<0, 0, GridDepth>>}

AxisNormals ==
    {<<1, 0, 0>>, <<-1, 0, 0>>, <<0, 1, 0>>, <<0, -1, 0>>, <<0, 0, 1>>, <<0, 0, -1>>}

\* closest_collision as lines 467-523 leave it: nothing; the nearest non-Empty
\* stored voxel the ray hits, with the normal of the face hit
\* (GetRayCollisionBox); or, when the ray hits no voxel, the cell of the y = 0
\* plane it hits, with the up normal.  A ray that reaches the plane inside
\* the footprint of a non-Empty cell (x, 0, z) hits that voxel's box, so the
\* fallback reports Empty cells only.  Every face of every non-Empty voxel is
\* offered, also one that a neighbouring voxel hides from every ray: the
\* cell across such a face is non-Empty, so the edit does nothing there.
Picks(w) ==
    {[some |-> FALSE]}
    \cup {[some |-> TRUE, cell |-> w.voxels[i].position, normal |-> n] :
            i \in {j \in 1..Len(w.voxels) : w.voxels[j].voxel_type # Empty},
            n \in AxisNormals}
    \cup {[some |-> TRUE, cell |-> c, normal |-> <<0, 1, 0>>] :
            c \in {d \in Cells : d[2] = 0 /\ GetVoxel(w, d[1], 0, d[3]) = Empty}}

\* Candidate positions handed to check_voxel_collision: every quarter step
\* on x and z whose cells are inside the grid, at the players' height 1.0
\* and half a voxel above it.
CheckPositions ==
    {<<x * (Res \div 4), y, z * (Res \div 4)>> :
        x \in 0..((GridWidth - 1) * 4),
        y \in {Res, Res + Res \div 2},
        z \in 0..((GridDepth - 1) * 4)}

-----------------------------------------------------------------------------
(* The program *)

\* The clock of a player that has not dashed yet.  From a dash start on,
\* first is the delta of the tick that started the dash and later the sum of
\* the deltas of the ticks run after that tick.
NoDash == [started |-> FALSE, first |-> 0, later |-> 0]

Init ==
    /\ pc = "start"
    /\ world = WorldDefault
    /\ players = <<>>
    /\ editor = EditorDefault
    /\ nwrites = 0
    /\ lastCall = [op |-> "new"]
    /\ nticks = 0
    /\ dashClock = <<>>
    /\ player_inputs = <<>>

\* main() calls init(state): the floor, and the input of the keyboard player
\* (lines 21-24; movement_speed is 5.0 in every entry and is MovementSpeed)
InitGame ==
    /\ pc = "start"
    /\ pc' = "loop"
    /\ world' = InitWorld(world)
    /\ player_inputs' = <<[id |-> 0, movement |-> <<0, 0>>]>>
    /\ lastCall' = [op |-> "init"]
    /\ UNCHANGED <<players, editor, nwrites, nticks, dashClock>>

\* update(): the M key toggles the editor (lines 93-105)
ToggleEditor ==
    /\ pc = "loop"
    /\ editor' = [editor EXCEPT !.active = ~editor.active]
    /\ lastCall' = [op |-> "toggle"]
    /\ UNCHANGED <<pc, world, players, nwrites, nticks, dashClock, player_inputs>>

\* update_player_inputs: the space key spawns the keyboard player (lines
\* 140-152); with no player in the map a colour is always free.
SpawnKeyboardPlayer ==
    /\ pc = "loop"
    /\ 0 \notin DOMAIN players
    /\ Cardinality(DOMAIN players) < 5
    /\ players' = (0 :> [PlayerDefault EXCEPT
                            !.position = <<(world.width * Res) \div 2, Res,
                                           (world.depth * Res) \div 2>>,
                            !.is_ready = TRUE])
    /\ dashClock' = (0 :> NoDash)
    /\ lastCall' = [op |-> "spawn"]
    /\ UNCHANGED <<pc, world, editor, nwrites, nticks, player_inputs>>

\* update_player_position calls check_voxel_collision on a candidate position
\* with the player's size (line 429); pc = "called" until the caller goes on.
CheckCollisionCall ==
    /\ pc = "loop"
    /\ pc' = "called"
    /\ \E position \in CheckPositions :
         LET size == PlayerDefault.size
         IN  lastCall' =
               [op |-> "check", position |-> position, size |-> size,
                lo |-> [a \in 1..3 |-> MinCell(world, position, size, a)],
                hi |-> [a \in 1..3 |-> MaxCell(world, position, size, a)],
                ret |-> CheckVoxelCollision(world, position, size)]
    /\ UNCHANGED <<world, players, editor, nwrites, nticks, dashClock, player_inputs>>

\* The caller of a read-only operation goes on
Return ==
    /\ pc = "called"
    /\ pc' = "loop"
    /\ lastCall' = [op |-> "return"]
    /\ UNCHANGED <<world, players, editor, nwrites, nticks, dashClock, player_inputs>>

\* update() calls handle_voxel_input
HandleVoxelInput ==
    /\ pc = "loop"
    /\ \E pick \in Picks(world), left \in {"up", "pressed", "down"},
          right_pressed \in BOOLEAN, ctrl \in BOOLEAN :
         \E r \in {HandleVoxelInputOp(world, players, editor, pick, left,
                                      right_pressed, ctrl)} :
             /\ r.world # world => nwrites < MaxWrites
             /\ world' = r.world
             /\ editor' = r.editor
             /\ nwrites' = IF r.world # world THEN nwrites + 1 ELSE nwrites
             /\ lastCall' = [op |-> "edit"]
    /\ UNCHANGED <<pc, players, nticks, dashClock, player_inputs>>

Next ==
    \/ InitGame
    \/ ToggleEditor
    \/ SpawnKeyboardPlayer
    \/ CheckCollisionCall
    \/ Return
    \/ HandleVoxelInput

Spec == Init /\ [][Next]_vars

-----------------------------------------------------------------------------
(* The movement of the players *)

\* Frame times, in steps of 1 / Sec: 0.03, 0.09, 0.2 and 1.0 seconds
Deltas == {(3 * Sec) \div 100, (9 * Sec) \div 100, Sec \div 5, Sec}

\* input.movement of the keyboard player as update_player_inputs leaves it
\* (lines 123-138): no key, D, and W
Movements == {<<0, 0>>, <<1, 0>>, <<0, -1>>}

\* The clock of a player after a tick of this delta
ClockAfter(clock, dash_started, delta) ==
    IF dash_started THEN [started |-> TRUE, first |-> delta, later |-> 0]
    ELSE IF clock.started THEN [clock EXCEPT !.later = @ + delta]
    ELSE clock

\* update() calls update_player_position(state, delta): every player with a
\* registered input is updated, with the movement update_player_inputs has
\* just stored and the dash key or button of this frame.  lastCall holds the
\* steps of the call until update() goes on (Return).
Tick ==
    /\ pc = "loop"
    /\ nticks < MaxTicks
    /\ \E delta \in Deltas,
          movement \in [DOMAIN players -> Movements],
          is_dash_pressed \in [DOMAIN players -> BOOLEAN] :
         \E tr \in {[id \in DOMAIN players |->
                        UpdatePlayer(world, players[id], movement[id],
                                     is_dash_pressed[id], delta)]} :
             /\ players' = [id \in DOMAIN players |-> tr[id].final]
             /\ dashClock' = [id \in DOMAIN players |->
                                ClockAfter(dashClock[id],
                                           tr[id].triggered.is_dashing
                                               /\ ~tr[id].cooled.is_dashing,
                                           delta)]
             /\ lastCall' = [op |-> "tick", delta |-> delta, trace |-> tr,
                             clock |-> dashClock]
    /\ pc' = "called"
    /\ nticks' = nticks + 1
    /\ UNCHANGED <<world, editor, nwrites, player_inputs>>

NextMotion ==
    \/ InitGame
    \/ SpawnKeyboardPlayer
    \/ Tick
    \/ Return

\* The state after construction, on the wider grid
InitMotion ==
    /\ pc = "start"
    /\ world = ArenaDefault
    /\ players = <<>>
    /\ editor = EditorDefault
    /\ nwrites = 0
    /\ lastCall = [op |-> "new"]
    /\ nticks = 0
    /\ dashClock = <<>>
    /\ player_inputs = <<>>

SpecMotion == InitMotion /\ [][NextMotion]_vars

-----------------------------------------------------------------------------
(* logic.rs: update_player_inputs and update_player_position over all players *)

\* The player that lines 143-150 and 184-191 insert
SpawnedPlayer(w) ==
    [PlayerDefault EXCEPT
        !.position = <<(w.width * Res) \div 2, Res, (w.depth * Res) \div 2>>,
        !.is_ready = TRUE]

\* A gamepad in one frame: IsGamepadAvailable, the left stick after the
\* deadzone and the normalisation of lines 160-176, and the right trigger
\* button, which is not pressed on a gamepad that is not available.
NoPad == [available |-> FALSE, movement |-> <<0, 0>>, trigger |-> FALSE]

PadMovements == {<<0, 0>>, <<-1, 0>>, <<0, 1>>}

PadStates ==
    {NoPad} \cup {[available |-> TRUE, movement |-> m, trigger |-> t] :
                    m \in PadMovements, t \in BOOLEAN}

Gamepads == 0..(MaxGamepads - 1)

\* The loop of lines 120-202 from entry i of player_inputs on: keys is the
\* movement of the keys D, A, S, W and pads the state of each gamepad.
RECURSIVE InputsFrom(_, _, _, _, _, _, _)
InputsFrom(w, ps, inputs, keys, space_pressed, pads, i) ==
    IF i > Len(inputs) THEN [players |-> ps, player_inputs |-> inputs]
    ELSE LET id == inputs[i].id
         IN  IF id = 0
             THEN InputsFrom(w,
                      IF 0 \notin DOMAIN ps /\ Cardinality(DOMAIN ps) < 5 /\ space_pressed
                      THEN ps @@ (0 :> SpawnedPlayer(w))
                      ELSE ps,
                      [inputs EXCEPT ![i].movement = keys],
                      keys, space_pressed, pads, i + 1)
             ELSE IF pads[id - 1].available
             THEN InputsFrom(w,
                      IF /\ id \notin DOMAIN ps /\ Cardinality(DOMAIN ps) < 5
                         /\ pads[id - 1].movement # <<0, 0>>
                      THEN ps @@ (id :> SpawnedPlayer(w))
                      ELSE ps,
                      [inputs EXCEPT ![i].movement = pads[id - 1].movement],
                      keys, space_pressed, pads, i + 1)
             ELSE InputsFrom(w, ps, inputs, keys, space_pressed, pads, i + 1)

InsertAt(seq, k, e) == SubSeq(seq, 1, k - 1) \o <<e>> \o SubSeq(seq, k, Len(seq))

\* The loop of lines 206-221 from gamepad g on.  HashMap::insert puts the
\* new entry where its hash says: slots[g] is its place in the order of
\* iteration, and the entries already stored keep their order.
RECURSIVE DetectFrom(_, _, _, _)
DetectFrom(inputs, pads, slots, g) ==
    IF g \notin Gamepads THEN inputs
    ELSE IF pads[g].available /\ \A i \in 1..Len(inputs) : inputs[i].id # g + 1
    THEN DetectFrom(InsertAt(inputs, Min(slots[g], Len(inputs) + 1),
                             [id |-> g + 1, movement |-> <<0, 0>>]),
                    pads, slots, g + 1)
    ELSE DetectFrom(inputs, pads, slots, g + 1)

\* An update_player_inputs that takes the player of a gamepad that is not
\* available out of the map.
MutUpdatePlayerInputsDropsUnplugged(w, ps, inputs, keys, space_pressed, pads, slots) ==
    LET r == InputsFrom(w, ps, inputs, keys, space_pressed, pads, 1)
        kept == {id \in DOMAIN r.players : id = 0 \/ pads[id - 1].available}
    IN  [players |-> [id \in kept |-> r.players[id]],
         player_inputs |-> IF Cardinality(DOMAIN r.players) < 5
                           THEN DetectFrom(r.player_inputs, pads, slots, 0)
                           ELSE r.player_inputs]

\* update_player_inputs (lines 113-224); next_player_id is 1 from init on
UpdatePlayerInputsOp(w, ps, inputs, keys, space_pressed, pads, slots) ==
    LET r == InputsFrom(w, ps, inputs, keys, space_pressed, pads, 1)
    IN  [players |-> r.players,
         player_inputs |-> IF Cardinality(DOMAIN r.players) < 5
                           THEN DetectFrom(r.player_inputs, pads, slots, 0)
                           ELSE r.player_inputs]

\* A candidate position is also refused when it overlaps the box of
\* another player.
MutUpdatePlayerAmongPlayers(w, ps, id, movement, is_dash_pressed, delta) ==
    LET u == UpdatePlayer(w, ps[id], movement, is_dash_pressed, delta)
    IN  IF /\ u.moving /\ ~u.collision.some
           /\ \E o \in DOMAIN ps \ {id} :
                 \A a \in 1..3 :
                    2 * Abs(u.candidate[a] - ps[o].position[a])
                        < u.start.size[a] + ps[o].size[a]
        THEN [u EXCEPT !.final = [u.ended EXCEPT !.velocity = Vec3Zero,
                                                 !.is_dashing = FALSE]]
        ELSE u

\* The body of the loop of update_player_position for the player id of the
\* map ps (lines 308-439): state.players.get_mut(id) is all it reads of ps.
UpdatePlayerOf(w, ps, id, movement, is_dash_pressed, delta) ==
    UpdatePlayer(w, ps[id], movement, is_dash_pressed, delta)

\* The loop of lines 307-440 from entry i of player_inputs on: the players
\* and, for each player updated, the steps of its update.  shift_pressed is
\* the key of the keyboard player, triggers the button of each gamepad.
RECURSIVE PositionFrom(_, _, _, _, _, _, _, _)
PositionFrom(w, ps, tr, inputs, shift_pressed, triggers, delta, i) ==
    IF i > Len(inputs) THEN [players |-> ps, trace |-> tr]
    ELSE LET id == inputs[i].id
         IN  IF id \in DOMAIN ps
             THEN LET u == UpdatePlayerOf(w, ps, id, inputs[i].movement,
                                          IF id = 0 THEN shift_pressed
                                                    ELSE triggers[id - 1],
                                          delta)
                  IN  PositionFrom(w, [ps EXCEPT ![id] = u.final], tr @@ (id :> u),
                                   inputs, shift_pressed, triggers, delta, i + 1)
             ELSE PositionFrom(w, ps, tr, inputs, shift_pressed, triggers, delta,
                               i + 1)

\* A loop that gives an input entry without a player a new player.
RECURSIVE MutPositionSpawnsFrom(_, _, _, _, _, _, _, _)
MutPositionSpawnsFrom(w, ps, tr, inputs, shift_pressed, triggers, delta, i) ==
    IF i > Len(inputs) THEN [players |-> ps, trace |-> tr]
    ELSE LET id == inputs[i].id
             ps1 == IF id \in DOMAIN ps THEN ps ELSE ps @@ (id :> SpawnedPlayer(w))
             u == UpdatePlayerOf(w, ps1, id, inputs[i].movement,
                                 IF id = 0 THEN shift_pressed ELSE triggers[id - 1],
                                 delta)
         IN  MutPositionSpawnsFrom(w, [ps1 EXCEPT ![id] = u.final], tr @@ (id :> u),
                                   inputs, shift_pressed, triggers, delta, i + 1)

MutUpdatePlayerPositionSpawns(w, ps, inputs, shift_pressed, triggers, delta) ==
    MutPositionSpawnsFrom(w, ps, <<>>, inputs, shift_pressed, triggers, delta, 1)

\* update_player_position (lines 306-441)
UpdatePlayerPositionOp(w, ps, inputs, shift_pressed, triggers, delta) ==
    PositionFrom(w, ps, <<>>, inputs, shift_pressed, triggers, delta, 1)

\* The ids of the entries of player_inputs, in the order of iteration
IdsOf(inputs) == [i \in 1..Len(inputs) |-> inputs[i].id]

\* Frame times of the frames in which all players are updated
FrameDeltas == {(3 * Sec) \div 100, (9 * Sec) \div 100}

\* update() calls update_player_inputs (line 107)
UpdatePlayerInputs ==
    /\ pc = "loop"
    /\ \E keys \in Movements, space_pressed \in BOOLEAN,
          pads \in [Gamepads -> PadStates],
          slots \in [Gamepads -> 1..(MaxGamepads + 1)] :
         \E r \in {UpdatePlayerInputsOp(world, players, player_inputs, keys,
                                        space_pressed, pads, slots)} :
             /\ players' = r.players
             /\ player_inputs' = r.player_inputs
             /\ dashClock' = [id \in DOMAIN r.players |->
                                IF id \in DOMAIN players THEN dashClock[id] ELSE NoDash]
    /\ lastCall' = [op |-> "inputs"]
    /\ UNCHANGED <<pc, world, editor, nwrites, nticks>>

\* update() calls update_player_position(state, delta) (line 108).
\* lastCall holds the players before the call, the order of iteration and
\* the steps of each player until update() goes on (Return).
UpdatePlayerPosition ==
    /\ pc = "loop"
    /\ nticks < MaxFrames
    /\ \E delta \in FrameDeltas, shift_pressed \in BOOLEAN,
          triggers \in [Gamepads -> BOOLEAN] :
         \E r \in {UpdatePlayerPositionOp(world, players, player_inputs,
                                          shift_pressed, triggers, delta)} :
             /\ players' = r.players
             /\ dashClock' = [id \in DOMAIN players |->
                                IF id \in DOMAIN r.trace
                                THEN ClockAfter(dashClock[id],
                                                r.trace[id].triggered.is_dashing
                                                    /\ ~r.trace[id].cooled.is_dashing,
                                                delta)
                                ELSE dashClock[id]]
             /\ lastCall' = [op |-> "position", delta |-> delta,
                             shift_pressed |-> shift_pressed,
                             triggers |-> triggers,
                             players |-> players, trace |-> r.trace]
    /\ pc' = "called"
    /\ nticks' = nticks + 1
    /\ UNCHANGED <<world, editor, nwrites, player_inputs>>

NextPlayers ==
    \/ InitGame
    \/ UpdatePlayerInputs
    \/ UpdatePlayerPosition
    \/ Return

SpecPlayers == InitMotion /\ [][NextPlayers]_vars

-----------------------------------------------------------------------------
(* The grid operations called directly *)

GetVoxelCall ==
    /\ pc = "loop"
    /\ pc' = "called"
    /\ \E c \in Coords :
         lastCall' = [op |-> "get", position |-> c,
                      ret |-> GetVoxel(world, c[1], c[2], c[3])]
    /\ UNCHANGED <<world, players, editor, nwrites, nticks, dashClock, player_inputs>>

SetVoxelCall ==
    /\ pc = "loop"
    /\ nwrites < MaxWrites
    /\ \E c \in Coords, t \in VoxelType :
         /\ world' = SetVoxel(world, c[1], c[2], c[3], t)
         /\ lastCall' = [op |-> "set", position |-> c, voxel_type |-> t,
                         had_entry |-> Find(world.voxels, c[1], c[2], c[3]) # 0,
                         len0 |-> Len(world.voxels)]
    /\ nwrites' = nwrites + 1
    /\ UNCHANGED <<pc, players, editor, nticks, dashClock, player_inputs>>

\* set_voxel(x, y, z, t) followed by set_voxel(x, y, z, Empty)
SetThenClear ==
    /\ pc = "loop"
    /\ nwrites < MaxWrites
    /\ \E c \in Coords, t \in VoxelType :
         /\ world' = SetVoxel(SetVoxel(world, c[1], c[2], c[3], t), c[1], c[2], c[3], Empty)
         /\ lastCall' = [op |-> "set_clear", position |-> c, voxel_type |-> t,
                         had_entry |-> Find(world.voxels, c[1], c[2], c[3]) # 0,
                         len0 |-> Len(world.voxels)]
    /\ nwrites' = nwrites + 1
    /\ UNCHANGED <<pc, players, editor, nticks, dashClock, player_inputs>>

NextGrid ==
    \/ InitGame
    \/ GetVoxelCall
    \/ Return
    \/ SetVoxelCall
    \/ SetThenClear

SpecGrid == Init /\ [][NextGrid]_vars

-----------------------------------------------------------------------------
(* The pick of handle_voxel_input on its own *)

\* Rays of GetScreenToWorldRay: from the centre of a cell of the grid or of
\* the layer of cells around it, along an axis or a diagonal of two axes.
\* A start is on no face of a voxel.
RayOrigins ==
    {<<x * Res + Res \div 2, y * Res + Res \div 2, z * Res + Res \div 2>> :
        x \in (-1)..GridWidth, y \in (-1)..GridHeight, z \in 0..(GridDepth - 1)}

RayDirections ==
    {<<0, -1, 0>>, <<0, 1, 0>>, <<1, 0, 0>>, <<-1, 0, 0>>, <<0, 0, 1>>, <<0, 0, -1>>,
     <<1, -1, 0>>, <<-1, -1, 0>>, <<0, -1, 1>>, <<1, 1, 0>>}

Rays ==
    {[position |-> o, direction |-> d, neg_zero_y |-> FALSE] :
        o \in RayOrigins, d \in RayDirections}
    \cup {[position |-> o, direction |-> d, neg_zero_y |-> TRUE] :
            o \in RayOrigins, d \in {e \in RayDirections : e[2] = 0}}

\* handle_voxel_input computes closest_collision for the ray of this frame
\* (lines 467-523); pc = "called" until it goes on.
PickCall ==
    /\ pc = "loop"
    /\ pc' = "called"
    /\ \E ray \in Rays :
         lastCall' = [op |-> "pick", ray |-> ray, ret |-> Pick(world, ray)]
    /\ UNCHANGED <<world, players, editor, nwrites, nticks, dashClock, player_inputs>>

NextPick ==
    \/ InitGame
    \/ SetVoxelCall
    \/ PickCall
    \/ Return

SpecPick == Init /\ [][NextPick]_vars

-----------------------------------------------------------------------------
(* handle_voxel_input on the picks of the rays *)

\* closest_collision as the lines after 523 read it: the cell and the
\* normal; the distance is not read again (lines 531 and 558)
Target(closest) ==
    IF closest.some
    THEN [some |-> TRUE, cell |-> closest.cell, normal |-> closest.normal]
    ELSE NoCollision

RayPicks(w) == {Target(Pick(w, ray)) : ray \in Rays}

\* update() calls handle_voxel_input (line 109) with the ray of this frame
\* and the mouse and keyboard state.  lastCall holds the inputs, the grid
\* before the call and build_mode after the toggle of lines 526-528, until
\* update() goes on (Return).
EditCall ==
    /\ pc = "loop"
    /\ pc' = "called"
    /\ \E pick \in RayPicks(world), left \in {"up", "pressed", "down"},
          right_pressed \in BOOLEAN, ctrl \in BOOLEAN :
         \E r \in {HandleVoxelInputOp(world, players, editor, pick, left,
                                      right_pressed, ctrl)} :
             /\ r.world # world => nwrites < MaxWrites
             /\ world' = r.world
             /\ editor' = r.editor
             /\ nwrites' = IF r.world # world THEN nwrites + 1 ELSE nwrites
             /\ lastCall' = [op |-> "edit_call", pick |-> pick, left |-> left,
                             ctrl |-> ctrl, active |-> editor.active,
                             build_mode |-> r.editor.build_mode,
                             hovered |-> HoveredVoxel(world, r.editor.build_mode,
                                                      pick),
                             world |-> world]
    /\ UNCHANGED <<players, nticks, dashClock, player_inputs>>

NextEdit ==
    \/ InitGame
    \/ ToggleEditor
    \/ SpawnKeyboardPlayer
    \/ EditCall
    \/ Return

SpecEdit == Init /\ [][NextEdit]_vars

-----------------------------------------------------------------------------
(* logic.rs: update, one frame *)

\* A frame in which handle_voxel_input runs before update_player_position.
MutUpdateOpEditFirst(w, ps, inputs, ed, in) ==
    LET ed1 == IF in.m_pressed THEN [ed EXCEPT !.active = ~@] ELSE ed
        r1 == UpdatePlayerInputsOp(w, ps, inputs, in.keys, in.space_pressed,
                                   in.pads, in.slots)
        r3 == HandleVoxelInputOp(w, r1.players, ed1, in.pick, in.left,
                                 in.right_pressed, in.ctrl)
        r2 == UpdatePlayerPositionOp(r3.world, r1.players, r1.player_inputs,
                                     in.shift_pressed,
                                     [g \in Gamepads |-> in.pads[g].trigger],
                                     in.delta)
    IN  [world |-> r3.world, players |-> r2.players,
         player_inputs |-> r1.player_inputs, editor |-> r3.editor,
         spawned |-> r1.players, trace |-> r2.trace]

\* update(state, delta) (lines 91-111) on the inputs in of the frame: the M
\* key, update_player_inputs, update_player_position, handle_voxel_input.
\* update_camera writes the camera only, which is not part of the state.
\* spawned is the players between the first two calls, trace the steps of
\* the second.
UpdateOp(w, ps, inputs, ed, in) ==
    LET ed1 == IF in.m_pressed THEN [ed EXCEPT !.active = ~@] ELSE ed
        r1 == UpdatePlayerInputsOp(w, ps, inputs, in.keys, in.space_pressed,
                                   in.pads, in.slots)
        r2 == UpdatePlayerPositionOp(w, r1.players, r1.player_inputs,
                                     in.shift_pressed,
                                     [g \in Gamepads |-> in.pads[g].trigger],
                                     in.delta)
        r3 == HandleVoxelInputOp(w, r2.players, ed1, in.pick, in.left,
                                 in.right_pressed, in.ctrl)
    IN  [world |-> r3.world, players |-> r2.players,
         player_inputs |-> r1.player_inputs, editor |-> r3.editor,
         spawned |-> r1.players, trace |-> r2.trace]

\* The mouse of a frame: the left button up, or pressed in this frame on
\* one of the picks of the rays
FrameMouse(w) ==
    {[left |-> "up", pick |-> NoCollision]}
    \cup {[left |-> "pressed", pick |-> pick] : pick \in RayPicks(w)}

\* The inputs of a frame of a session without gamepads and without the Ctrl
\* key: the keys M, space, D and left shift, the frame time and the mouse
FrameInputs(w) ==
    {[m_pressed |-> m, space_pressed |-> sp, keys |-> k, shift_pressed |-> sh,
      pads |-> [g \in Gamepads |-> NoPad], slots |-> [g \in Gamepads |-> 1],
      delta |-> d, pick |-> mouse.pick, left |-> mouse.left,
      right_pressed |-> r, ctrl |-> FALSE] :
        m \in BOOLEAN, sp \in BOOLEAN, k \in {<<0, 0>>, <<1, 0>>}, sh \in BOOLEAN,
        d \in FrameDeltas, mouse \in FrameMouse(w), r \in BOOLEAN}

\* main() calls update(&mut state, dt) (main.rs line 35).  lastCall holds
\* the inputs and the state before the frame, the players after
\* update_player_inputs and the steps of update_player_position, until
\* main() goes on (Return).
Update ==
    /\ pc = "loop"
    /\ nticks < MaxFrames
    /\ \E in \in FrameInputs(world) :
         \E r \in {UpdateOp(world, players, player_inputs, editor, in)} :
             /\ r.world # world => nwrites < MaxWrites
             /\ world' = r.world
             /\ players' = r.players
             /\ player_inputs' = r.player_inputs
             /\ editor' = r.editor
             /\ nwrites' = IF r.world # world THEN nwrites + 1 ELSE nwrites
             /\ dashClock' = [id \in DOMAIN r.players |->
                                ClockAfter(IF id \in DOMAIN players
                                           THEN dashClock[id] ELSE NoDash,
                                           r.trace[id].triggered.is_dashing
                                               /\ ~r.trace[id].cooled.is_dashing,
                                           in.delta)]
             /\ lastCall' = [op |-> "update", in |-> in, world |-> world,
                             players |-> players, editor |-> editor,
                             spawned |-> r.spawned, trace |-> r.trace]
    /\ pc' = "called"
    /\ nticks' = nticks + 1

NextUpdate ==
    \/ InitGame
    \/ Update
    \/ Return

SpecUpdate == Init /\ [][NextUpdate]_vars

-----------------------------------------------------------------------------
(* Vocabulary of the properties *)

\* (x, y, z) lies in [0, width) x [0, height) x [0, depth)
InBounds(w, c) ==
    /\ 0 <= c[1] /\ c[1] < w.width
    /\ 0 <= c[2] /\ c[2] < w.height
    /\ 0 <= c[3] /\ c[3] < w.depth

\* Indexes of the entries stored at coordinate c
EntriesAt(w, c) == {i \in 1..Len(w.voxels) : w.voxels[i].position = c}

\* The inclusive cell range covered by position - size/2 .. position + size/2
BoxLo(w, position, size, a) == Floor(2 * position[a] - size[a], 2 * w.voxel_size)
BoxHi(w, position, size, a) == Ceil(2 * position[a] + size[a], 2 * w.voxel_size)

\* floor((position.y - size.y/2) / voxel_size)
BottomY(w, position, size) == Floor(2 * position[2] - size[2], 2 * w.voxel_size)

\* Cells of the horizontal range of the box at bottom_y that are not Ground
BoxUnsupported(w, position, size) ==
    {c \in (BoxLo(w, position, size, 1)..BoxHi(w, position, size, 1))
           \X {BottomY(w, position, size)}
           \X (BoxLo(w, position, size, 3)..BoxHi(w, position, size, 3)) :
        GetVoxel(w, c[1], c[2], c[3]) # Ground}

\* Wall cells whose distance to the box centre is below size/2 + voxel_size/2
\* on all three axes
WallsOverlapping(w, position, size) ==
    {c \in Cells : /\ GetVoxel(w, c[1], c[2], c[3]) = Wall
                   /\ \A a \in 1..3 :
                        2 * Abs(position[a] - c[a] * w.voxel_size)
                            < size[a] + w.voxel_size}

\* c comes before d in x-then-z iteration order
BeforeXZ(c, d) == c[1] < d[1] \/ (c[1] = d[1] /\ c[3] <= d[3])

\* c comes before d in the iteration order x outer, then y, z inner
BeforeXYZ(c, d) ==
    \/ c[1] < d[1]
    \/ c[1] = d[1] /\ c[2] < d[2]
    \/ c[1] = d[1] /\ c[2] = d[2] /\ c[3] <= d[3]

-----------------------------------------------------------------------------
(* Properties of the grid *)

\* C1: get_voxel returns Empty for a coordinate out of bounds or with no
\* stored entry, the type of the entry stored there otherwise, and leaves the
\* grid as it was.
GetVoxelContract ==
    [][lastCall'.op = "get" =>
          LET c == lastCall'.position
          IN  /\ world' = world
              /\ IF InBounds(world, c) /\ EntriesAt(world, c) # {}
                 THEN \A i \in EntriesAt(world, c) :
                         lastCall'.ret = world.voxels[i].voxel_type
                 ELSE lastCall'.ret = Empty]_vars

GetVoxelStoredTypeSeen ==
    /\ lastCall.op = "get"
    /\ InBounds(world, lastCall.position)
    /\ lastCall.ret = Wall

\* C2: for an in-bounds coordinate and any type T, get_voxel right after
\* set_voxel(x, y, z, T) returns T.
SetGetRoundTrip ==
    (lastCall.op = "set" /\ InBounds(world, lastCall.position)) =>
        GetVoxel(world, lastCall.position[1], lastCall.position[2],
                 lastCall.position[3]) = lastCall.voxel_type

SetEmptyOnEntrySeen ==
    /\ lastCall.op = "set"
    /\ InBounds(world, lastCall.position)
    /\ lastCall.had_entry
    /\ lastCall.voxel_type = Empty

OneEntryPerCoordinate ==
    \A i, j \in 1..Len(world.voxels) :
        world.voxels[i].position = world.voxels[j].position => i = j

RewriteOfEntrySeen ==
    /\ lastCall.op = "set"
    /\ InBounds(world, lastCall.position)
    /\ lastCall.had_entry
    /\ lastCall.voxel_type = Wall

\* C6: set_voxel on a coordinate out of bounds leaves the grid unchanged: the
\* same entries, and the same get_voxel result for every coordinate.
OutOfBoundsSetIsNoOp ==
    [][(lastCall'.op = "set" /\ ~InBounds(world, lastCall'.position)) =>
          /\ world' = world
          /\ \A c \in Coords :
                GetVoxel(world', c[1], c[2], c[3]) = GetVoxel(world, c[1], c[2], c[3])]_vars

OutOfBoundsSetSeen ==
    /\ lastCall.op = "set"
    /\ ~InBounds(world, lastCall.position)
    /\ lastCall.voxel_type = Ground

\* C7: after init every cell (x, 0, z) of the grid is Ground and every cell
\* with y >= 1 is Empty.
InitSeedsGroundLayer ==
    lastCall.op = "init" =>
        \A c \in Cells :
            GetVoxel(world, c[1], c[2], c[3]) = IF c[2] = 0 THEN Ground ELSE Empty

InitDone ==
    /\ lastCall.op = "init"
    /\ pc = "loop"
    /\ Len(world.voxels) = world.width * world.depth

-----------------------------------------------------------------------------
(* Properties of check_voxel_collision *)

\* Cells at bottom_y, in the horizontal range the code examined, that are
\* not Ground
ExaminedUnsupported(w, call) ==
    {c \in (call.lo[1]..call.hi[1]) \X {BottomY(w, call.position, call.size)}
           \X (call.lo[3]..call.hi[3]) :
        GetVoxel(w, c[1], c[2], c[3]) # Ground}

\* C8: check_collision returns none when every cell of the box's horizontal
\* footprint (position - size/2 .. position + size/2) at bottom_y is Ground
\* and no Wall voxel overlaps the box, and returns a collision whenever one of
\* the two fails.
NoneIffSupportedAndClear ==
    lastCall.op = "check" =>
        (lastCall.ret = None <=>
            /\ BoxUnsupported(world, lastCall.position, lastCall.size) = {}
            /\ WallsOverlapping(world, lastCall.position, lastCall.size) = {})

\* The same with the footprint taken as the range the code examines (the
\* floor and ceil of the box centre): this much the code does.
NoneIffSupportedAndClearOnExaminedRange ==
    lastCall.op = "check" =>
        (lastCall.ret = None <=>
            /\ ExaminedUnsupported(world, lastCall) = {}
            /\ WallsOverlapping(world, lastCall.position, lastCall.size) = {})

\* C9: if a cell of the horizontal range (position - size/2 .. position +
\* size/2) at bottom_y is not Ground, check_collision returns a collision and
\* reports the first such cell in x-then-z order, whether or not a Wall
\* overlaps the box.
GroundSupportFirst ==
    (/\ lastCall.op = "check"
     /\ BoxUnsupported(world, lastCall.position, lastCall.size) # {}) =>
        /\ lastCall.ret.some
        /\ lastCall.ret.position \in
              BoxUnsupported(world, lastCall.position, lastCall.size)
        /\ \A d \in BoxUnsupported(world, lastCall.position, lastCall.size) :
              BeforeXZ(lastCall.ret.position, d)

\* The same over the range the code examines: this much the code does.
GroundSupportFirstOnExaminedRange ==
    (/\ lastCall.op = "check"
     /\ ExaminedUnsupported(world, lastCall) # {}) =>
        /\ lastCall.ret.some
        /\ lastCall.ret.position \in ExaminedUnsupported(world, lastCall)
        /\ \A d \in ExaminedUnsupported(world, lastCall) :
              BeforeXZ(lastCall.ret.position, d)
        /\ lastCall.ret.voxel_type =
              GetVoxel(world, lastCall.ret.position[1], lastCall.ret.position[2],
                       lastCall.ret.position[3])

\* C10: on each axis the cell range check_collision examines runs from
\* floor((position - size/2) / voxel_size) to ceil((position + size/2) /
\* voxel_size).
ExaminedRangeCoversBox ==
    lastCall.op = "check" =>
        \A a \in 1..3 :
            /\ lastCall.lo[a] = BoxLo(world, lastCall.position, lastCall.size, a)
            /\ lastCall.hi[a] = BoxHi(world, lastCall.position, lastCall.size, a)

\* What the code examines: floor(position / voxel_size) to
\* ceil(position / voxel_size), whatever the size.
ExaminedRangeIsCentreCells ==
    lastCall.op = "check" =>
        \A a \in 1..3 :
            /\ lastCall.lo[a] = Floor(lastCall.position[a], world.voxel_size)
            /\ lastCall.hi[a] = Ceil(lastCall.position[a], world.voxel_size)

\* A player standing at (1.0, 1.0, 0.5) after the Ground cell (0, 0, 0), which
\* its box reaches into, was removed: the check reports no collision.
UnsupportedBoxPasses ==
    /\ lastCall.op = "check"
    /\ lastCall.position = <<Res, Res, Res \div 2>>
    /\ GetVoxel(world, 0, 0, 0) = Empty
    /\ <<0, 0, 0>> \in BoxUnsupported(world, lastCall.position, lastCall.size)
    /\ \A c \in BoxUnsupported(world, lastCall.position, lastCall.size) : InBounds(world, c)
    /\ lastCall.ret = None

\* The check of (1.0, 1.0, 0.5) after the Ground cells (0, 0, 0) and (1, 0, 1)
\* were removed: the first unsupported cell of the box is (0, 0, 0), the cell
\* reported is (1, 0, 1).
LaterCellReported ==
    /\ lastCall.op = "check"
    /\ lastCall.position = <<Res, Res, Res \div 2>>
    /\ GetVoxel(world, 0, 0, 0) = Empty
    /\ <<0, 0, 0>> \in BoxUnsupported(world, lastCall.position, lastCall.size)
    /\ lastCall.ret = [some |-> TRUE, position |-> <<1, 0, 1>>, voxel_type |-> Empty]

\* The check of (1.0, 1.0, 0.5) with size (0.5, 1.0, 0.5): the box spans
\* x in 0.75 .. 1.25, the cells examined on x are 1 .. 1.
CentreCellOnlyExamined ==
    /\ lastCall.op = "check"
    /\ lastCall.position = <<Res, Res, Res \div 2>>
    /\ lastCall.lo[1] = 1 /\ lastCall.hi[1] = 1
    /\ BoxLo(world, lastCall.position, lastCall.size, 1) = 0
    /\ BoxHi(world, lastCall.position, lastCall.size, 1) = 2

\* C11: when ground support holds, check_collision reports the first cell in
\* the order x outer, y, z inner that is a Wall and whose distance to the
\* player centre is below size/2 + voxel_size/2 on all three axes, and none
\* when there is no such cell; a Ground cell is never reported then.  Ground
\* support is taken over the range the code examines, which holds whenever
\* it holds over the whole footprint of the box.
WallScanReportsFirstOverlap ==
    (/\ lastCall.op = "check"
     /\ ExaminedUnsupported(world, lastCall) = {}) =>
        LET walls == WallsOverlapping(world, lastCall.position, lastCall.size)
        IN  IF walls = {}
            THEN lastCall.ret = None
            ELSE /\ lastCall.ret.some
                 /\ lastCall.ret.voxel_type = Wall
                 /\ lastCall.ret.position \in walls
                 /\ \A d \in walls : BeforeXYZ(lastCall.ret.position, d)

\* A supported box that two Walls overlap, the one reported having the
\* smaller x and the larger z.
FirstOfTwoWallsReported ==
    /\ lastCall.op = "check"
    /\ BoxUnsupported(world, lastCall.position, lastCall.size) = {}
    /\ lastCall.ret.some
    /\ \E d \in WallsOverlapping(world, lastCall.position, lastCall.size) :
          /\ lastCall.ret.position[1] < d[1]
          /\ lastCall.ret.position[3] > d[3]

-----------------------------------------------------------------------------
(* Properties of update_player_position *)

\* The dash-active window the comments of lines 408 and 411 name: 0.2 s
DashDuration == DashCooldownTime - DashActiveUntil

\* Player id started a dash in the tick whose steps are t
DashStarted(t) == t.triggered.is_dashing /\ ~t.cooled.is_dashing

\* Where the keyboard player is spawned
SpawnPosition(w) == <<(w.width * Res) \div 2, Res, (w.depth * Res) \div 2>>

\* C12: a dash starts in a tick only if, at the trigger step, the dash was
\* requested, is_dashing is false, dash_cooldown <= 0 and the movement input
\* is not zero; if one of the four fails the trigger step changes none of
\* is_dashing, dash_direction and pre_dash_velocity.
DashStartsOnlyOnCondition ==
    lastCall.op = "tick" =>
        \A id \in DOMAIN lastCall.trace :
            LET t == lastCall.trace[id]
                all_four == /\ t.is_dash_pressed
                            /\ ~t.cooled.is_dashing
                            /\ t.cooled.dash_cooldown <= 0
                            /\ t.movement # <<0, 0>>
            IN  /\ DashStarted(t) => all_four
                /\ (t.final.is_dashing /\ ~t.start.is_dashing) => all_four
                /\ ~all_four =>
                      /\ t.triggered.is_dashing = t.cooled.is_dashing
                      /\ t.triggered.dash_direction = t.cooled.dash_direction
                      /\ t.triggered.pre_dash_velocity = t.cooled.pre_dash_velocity

\* A dash requested with a movement input while the cooldown of an earlier,
\* finished dash still runs: no dash starts.
DashRefusedOnCooldownSeen ==
    /\ lastCall.op = "tick"
    /\ \E id \in DOMAIN lastCall.trace :
          LET t == lastCall.trace[id]
          IN  /\ t.is_dash_pressed
              /\ t.movement # <<0, 0>>
              /\ ~t.cooled.is_dashing
              /\ t.cooled.dash_cooldown > 0
              /\ ~t.triggered.is_dashing
              /\ t.triggered.pre_dash_velocity # t.triggered.velocity

\* C13: right after the tick in which a dash is triggered with input (1, 0),
\* with no collision, the player has is_dashing = true, velocity = (15, 0, 0)
\* and dash_cooldown = 0.8.
DashTickLeavesFullCooldown ==
    lastCall.op = "tick" =>
        \A id \in DOMAIN lastCall.trace :
            LET t == lastCall.trace[id]
            IN  (DashStarted(t) /\ t.movement = <<1, 0>> /\ ~t.collision.some) =>
                    /\ t.final.is_dashing
                    /\ t.final.velocity = <<DashSpeed * Res, 0, 0>>
                    /\ t.final.dash_cooldown = DashCooldownTime

\* What the code does in that tick: the trigger sets dash_cooldown to 0.8
\* and velocity to (15, 0, 0), and the dash-end step of the same tick takes
\* delta off the cooldown, so that the tick ends with dash_cooldown =
\* 0.8 - delta, and with the dash still active only if delta < 0.2.
DashTickSpendsDelta ==
    lastCall.op = "tick" =>
        \A id \in DOMAIN lastCall.trace :
            LET t == lastCall.trace[id]
            IN  (DashStarted(t) /\ t.movement = <<1, 0>> /\ ~t.collision.some) =>
                    /\ t.triggered.dash_cooldown = DashCooldownTime
                    /\ t.triggered.velocity = <<DashSpeed * Res, 0, 0>>
                    /\ t.final.dash_cooldown = DashCooldownTime - lastCall.delta
                    /\ t.final.is_dashing <=> lastCall.delta < DashDuration
                    /\ t.final.is_dashing => t.final.velocity = <<DashSpeed * Res, 0, 0>>

\* A dash triggered with input (1, 0) in a tick of 0.03 s, no collision: the
\* tick ends with the dash active, velocity (15, 0, 0) and dash_cooldown 0.77.
DashTickShortOfFullCooldownSeen ==
    /\ lastCall.op = "tick"
    /\ lastCall.delta = (3 * Sec) \div 100
    /\ \E id \in DOMAIN lastCall.trace :
          LET t == lastCall.trace[id]
          IN  /\ DashStarted(t) /\ t.movement = <<1, 0>> /\ ~t.collision.some
              /\ t.final.is_dashing
              /\ t.final.velocity = <<DashSpeed * Res, 0, 0>>
              /\ t.final.dash_cooldown = DashCooldownTime - (3 * Sec) \div 100

\* C14: once the ticks run after the tick that triggered a dash total at
\* least 0.2 s of delta, is_dashing is false, however the time is split.
DashOverAfterWindow ==
    \A id \in DOMAIN players :
        (dashClock[id].started /\ dashClock[id].later >= DashDuration) =>
            ~players[id].is_dashing

\* A dash still active at the start of the tick that brings the time run
\* since its start to 0.2 s or more, and that no collision stops.
DashEndedByTimerSeen ==
    /\ lastCall.op = "tick"
    /\ \E id \in DOMAIN lastCall.trace :
          LET t == lastCall.trace[id]
          IN  /\ t.cooled.is_dashing
              /\ ~t.collision.some
              /\ dashClock[id].later >= DashDuration
              /\ lastCall.clock[id].later < DashDuration
              /\ ~t.final.is_dashing

\* C15: the dash-active window lasts 0.2 s.  In a tick in which the player is
\* dashing and no collision occurs, is_dashing is cleared only if the delta
\* run since the dash start, the delta of the triggering tick included, has
\* reached 0.2 s.
DashActiveForFullWindow ==
    lastCall.op = "tick" =>
        \A id \in DOMAIN lastCall.trace :
            LET t == lastCall.trace[id]
            IN  (t.triggered.is_dashing /\ ~t.collision.some /\ ~t.final.is_dashing) =>
                    dashClock[id].first + dashClock[id].later >= DashDuration

\* What the code does: while the dash is active the cooldown loses delta
\* twice in every tick after the triggering one (lines 311 and 410) and once
\* in the triggering tick, and the dash is cleared when the triggering delta
\* plus twice the later deltas reach 0.2 s.
DashClearedAtDoubleRate ==
    lastCall.op = "tick" =>
        \A id \in DOMAIN lastCall.trace :
            LET t == lastCall.trace[id]
            IN  (t.triggered.is_dashing /\ ~t.collision.some) =>
                    /\ t.final.dash_cooldown =
                          DashCooldownTime - dashClock[id].first - 2 * dashClock[id].later
                    /\ ~t.final.is_dashing <=>
                          dashClock[id].first + 2 * dashClock[id].later >= DashDuration

\* A dash triggered in a tick of 0.03 s and cleared, with no collision, by
\* the next tick of 0.09 s: 0.12 s after its start.
DashClearedEarlySeen ==
    /\ lastCall.op = "tick"
    /\ \E id \in DOMAIN lastCall.trace :
          LET t == lastCall.trace[id]
          IN  /\ t.triggered.is_dashing /\ ~t.collision.some /\ ~t.final.is_dashing
              /\ dashClock[id].first = (3 * Sec) \div 100
              /\ dashClock[id].later = (9 * Sec) \div 100

\* C16: a player that has started a dash starts no other dash before 0.8 s
\* of delta have run since that start (counting the delta of the tick that
\* started the first dash and of the tick that starts the second).
DashStartsSpacedByCooldown ==
    lastCall.op = "tick" =>
        \A id \in DOMAIN lastCall.trace :
            (DashStarted(lastCall.trace[id]) /\ lastCall.clock[id].started) =>
                lastCall.clock[id].first + lastCall.clock[id].later + lastCall.delta
                    >= DashCooldownTime

\* What the code does: a dash starts only when the cooldown is spent, and
\* the cooldown of 0.8 s, while positive, has lost at least the delta of
\* every tick from the one that started the dash on.
DashStartsWhenCooldownSpent ==
    lastCall.op = "tick" =>
        \A id \in DOMAIN lastCall.trace :
            LET t == lastCall.trace[id]
            IN  /\ DashStarted(t) => t.cooled.dash_cooldown <= 0
                /\ (lastCall.clock[id].started /\ t.start.dash_cooldown > 0) =>
                      t.start.dash_cooldown <=
                          DashCooldownTime - lastCall.clock[id].first - lastCall.clock[id].later

\* A second dash started less than 0.8 s after the first.
SecondDashEarlySeen ==
    /\ lastCall.op = "tick"
    /\ \E id \in DOMAIN lastCall.trace :
          /\ DashStarted(lastCall.trace[id])
          /\ lastCall.clock[id].started
          /\ lastCall.clock[id].first + lastCall.clock[id].later + lastCall.delta
                < DashCooldownTime

\* The tick of a player that stands at the spawn position with zero velocity
\* and no dash, with input (1, 0) and no dash request
FirstStep(t, w) ==
    /\ t.start.position = SpawnPosition(w)
    /\ t.start.velocity = Vec3Zero
    /\ ~t.start.is_dashing
    /\ t.movement = <<1, 0>>
    /\ ~t.is_dash_pressed

\* C17 as stated, on the model's grid: for a player at the centre of the
\* seeded grid with zero velocity, one tick of delta = 1.0 s with input (1, 0)
\* and movement_speed 5 leaves position.x strictly above its value before and
\* strictly below that value plus 5, and the new position is non-colliding.
OneSecondStepAdvances ==
    lastCall.op = "tick" =>
        \A id \in DOMAIN lastCall.trace :
            LET t == lastCall.trace[id]
            IN  (FirstStep(t, world) /\ lastCall.delta = Sec) =>
                    /\ t.final.position[1] > t.start.position[1]
                    /\ t.final.position[1] < t.start.position[1] + 5 * Res
                    /\ ~CheckVoxelCollision(world, t.final.position, t.final.size).some

\* C17 amended: the velocity after the acceleration step is 3.0 * delta times
\* the target 7.5 (movement_speed * 1.5).  With delta = 1.0 s it is 22.5, the
\* candidate lies 22.5 units to the right, outside the grid, the check
\* reports a collision, the position stays as it was and the velocity is set
\* to zero.  With delta <= 0.2 s position.x ends strictly above its value
\* before and strictly below that value plus 5 * delta, and the new position
\* is non-colliding.
OneSecondStepOvershoots ==
    lastCall.op = "tick" =>
        \A id \in DOMAIN lastCall.trace :
            LET t == lastCall.trace[id]
                d == lastCall.delta
            IN  FirstStep(t, world) =>
                    /\ t.ended.velocity =
                          <<(AccelerationRate * d * 15 * Res) \div (2 * Sec), 0, 0>>
                    /\ t.candidate[1] = t.start.position[1] + (t.ended.velocity[1] * d) \div Sec
                    /\ d = Sec =>
                          /\ t.ended.velocity = <<(45 * Res) \div 2, 0, 0>>
                          /\ t.candidate[1] > (world.width - 1) * Res
                          /\ t.collision.some
                          /\ t.final.position = t.start.position
                          /\ t.final.velocity = Vec3Zero
                    /\ 5 * d <= Sec =>
                          /\ ~t.collision.some
                          /\ t.final.position[1] > t.start.position[1]
                          /\ Sec * (t.final.position[1] - t.start.position[1]) < 5 * Res * d
                          /\ ~CheckVoxelCollision(world, t.final.position, t.final.size).some

\* The tick of 1.0 s from the spawn position with input (1, 0)
OneSecondStepSeen ==
    /\ lastCall.op = "tick"
    /\ lastCall.delta = Sec
    /\ \E id \in DOMAIN lastCall.trace :
          /\ FirstStep(lastCall.trace[id], world)
          /\ lastCall.trace[id].collision.some
          /\ players[id].position = SpawnPosition(world)

\* C18: a tick with zero movement input on a player whose velocity is zero
\* changes neither its position nor its velocity and calls no collision
\* check.
IdleTickChangesNothing ==
    lastCall.op = "tick" =>
        \A id \in DOMAIN lastCall.trace :
            LET t == lastCall.trace[id]
            IN  (t.movement = <<0, 0>> /\ t.start.velocity = Vec3Zero) =>
                    /\ t.final.position = t.start.position
                    /\ t.final.velocity = t.start.velocity
                    /\ ~t.moving

\* An idle tick of a player that a collision has stopped away from the spawn
\* position.
IdleTickAfterStopSeen ==
    /\ lastCall.op = "tick"
    /\ \E id \in DOMAIN lastCall.trace :
          LET t == lastCall.trace[id]
          IN  /\ t.movement = <<0, 0>>
              /\ t.start.velocity = Vec3Zero
              /\ t.start.position # SpawnPosition(world)
              /\ t.start.dash_cooldown > 0

\* C19: when the displacement velocity * delta is not zero the position
\* becomes position + velocity * delta if check_collision of that candidate
\* is none, and otherwise the position is unchanged, velocity is set to zero
\* and is_dashing is cleared; when it is zero the step changes nothing.
\* Nothing else of the player changes in the step.
MoveCommitsOrStops ==
    lastCall.op = "tick" =>
        \A id \in DOMAIN lastCall.trace :
            LET t == lastCall.trace[id]
                before == t.ended
                candidate == <<before.position[1] + MulDiv(before.velocity[1], lastCall.delta, Sec),
                               before.position[2] + MulDiv(before.velocity[2], lastCall.delta, Sec),
                               before.position[3] + MulDiv(before.velocity[3], lastCall.delta, Sec)>>
                blocked == \/ ExaminedUnsupported(world,
                                  [position |-> candidate, size |-> before.size,
                                   lo |-> [a \in 1..3 |-> Floor(candidate[a], world.voxel_size)],
                                   hi |-> [a \in 1..3 |-> Ceil(candidate[a], world.voxel_size)]]) # {}
                           \/ WallsOverlapping(world, candidate, before.size) # {}
            IN  IF before.velocity = Vec3Zero
                THEN t.final = before /\ ~t.moving
                ELSE /\ t.moving
                     /\ t.candidate = candidate
                     /\ t.collision.some <=> blocked
                     /\ IF ~blocked
                        THEN t.final = [before EXCEPT !.position = candidate]
                        ELSE t.final = [before EXCEPT !.velocity = Vec3Zero,
                                                      !.is_dashing = FALSE]

\* A dash that a collision stops: the position stays, the velocity is zero,
\* is_dashing is cleared.
AbruptStopOfDashSeen ==
    /\ lastCall.op = "tick"
    /\ \E id \in DOMAIN lastCall.trace :
          LET t == lastCall.trace[id]
          IN  /\ t.ended.is_dashing
              /\ t.moving /\ t.collision.some
              /\ t.final.position = t.start.position
              /\ t.final.velocity = Vec3Zero
              /\ ~t.final.is_dashing

-----------------------------------------------------------------------------
(* Properties of the pick of handle_voxel_input *)

\* The stored voxels that are not Empty and whose box the ray hits
HitsOf(w, ray) ==
    {i \in 1..Len(w.voxels) :
        /\ w.voxels[i].voxel_type # Empty
        /\ GetRayCollisionBox(ray, VoxelBoxMin(w, w.voxels[i].position),
                              VoxelBoxMax(w, w.voxels[i].position)).hit}

DistanceOf(w, ray, i) ==
    GetRayCollisionBox(ray, VoxelBoxMin(w, w.voxels[i].position),
                       VoxelBoxMax(w, w.voxels[i].position)).distance

\* C20: the pick is a voxel hit of the smallest distance among the stored
\* voxels that are not Empty and that the ray hits.  Only when the ray hits
\* none of them, and for a direction.y other than 0, the pick is that of the
\* plane y = 0: with t = -position.y / direction.y, the cell (x, 0, z) of the
\* floor-divided hit point with normal (0, 1, 0) if t > 0 and x and z are in
\* the grid, and nothing otherwise.  A ray straight down from above layer 0,
\* in a column of the grid with no voxel above layer 0, picks the cell of
\* layer 0 of that column with normal (0, 1, 0).
PickClosestOrGround ==
    lastCall.op = "pick" =>
        LET ray == lastCall.ray
            ret == lastCall.ret
            o == ray.position
            d == ray.direction
            hits == HitsOf(world, ray)
            cx == Floor(o[1], world.voxel_size)
            cz == Floor(o[3], world.voxel_size)
        IN  /\ hits # {} =>
                 /\ ret.some
                 /\ \E i \in hits :
                       /\ ret.cell = world.voxels[i].position
                       /\ ret.distance = DistanceOf(world, ray, i)
                 /\ \A j \in hits : ret.distance <= DistanceOf(world, ray, j)
            /\ (hits = {} /\ d[2] # 0) =>
                 LET t == (-o[2]) * d[2]
                     x == Floor(o[1] + d[1] * t, world.voxel_size)
                     z == Floor(o[3] + d[3] * t, world.voxel_size)
                 IN  IF t > 0 /\ x >= 0 /\ x < world.width /\ z >= 0 /\ z < world.depth
                     THEN /\ ret.some
                          /\ ret.cell = <<x, 0, z>>
                          /\ ret.distance = t
                          /\ ret.normal = <<0, 1, 0>>
                     ELSE ~ret.some
            /\ ( /\ d = <<0, -1, 0>>
                 /\ o[2] > world.voxel_size
                 /\ cx >= 0 /\ cx < world.width /\ cz >= 0 /\ cz < world.depth
                 /\ \A i \in 1..Len(world.voxels) :
                       (/\ world.voxels[i].position[1] = cx
                        /\ world.voxels[i].position[3] = cz
                        /\ world.voxels[i].position[2] > 0)
                       => world.voxels[i].voxel_type = Empty )
               => /\ ret.some
                  /\ ret.cell = <<cx, 0, cz>>
                  /\ ret.normal = <<0, 1, 0>>

\* A pick of a voxel that is stored after another voxel the ray hits
\* farther away.
PickOfLaterCloserVoxelSeen ==
    /\ lastCall.op = "pick"
    /\ lastCall.ret.some
    /\ \E i, j \in HitsOf(world, lastCall.ray) :
          /\ i < j
          /\ lastCall.ret.cell = world.voxels[j].position
          /\ DistanceOf(world, lastCall.ray, j) < DistanceOf(world, lastCall.ray, i)

\* A pick of the plane y = 0: the ray hits no voxel and the cell of layer 0
\* is reported.
PickOfGroundPlaneSeen ==
    /\ lastCall.op = "pick"
    /\ HitsOf(world, lastCall.ray) = {}
    /\ lastCall.ret.some
    /\ lastCall.ret.normal = <<0, 1, 0>>

\* C25: a pick whose ray has direction.y = 0 and hits no voxel reports
\* nothing, and lines 515-517 do not compute a cell from a t that is not
\* finite.
HorizontalRayGuarded ==
    (/\ lastCall.op = "pick"
     /\ lastCall.ray.direction[2] = 0
     /\ HitsOf(world, lastCall.ray) = {})
    => /\ ~lastCall.ret.some
       /\ ~GroundCellComputed(lastCall.ray)

\* What holds of C25: such a pick reports nothing.  An infinite t passes
\* line 514, the infinite or NaN hit_point is floored and cast, and the
\* saturated x or z is outside the grid.
HorizontalRayTargetsNoCell ==
    (/\ lastCall.op = "pick"
     /\ lastCall.ray.direction[2] = 0
     /\ HitsOf(world, lastCall.ray) = {})
    => ~lastCall.ret.some

\* A ray along the layer above the floor, direction.y a negative zero, that
\* hits no voxel: t is the positive infinity and the cell is computed from it.
HorizontalRayInfiniteTSeen ==
    /\ lastCall.op = "pick"
    /\ lastCall.ray.direction[2] = 0
    /\ lastCall.ray.position[2] > 0
    /\ HitsOf(world, lastCall.ray) = {}
    /\ GroundPlaneT(lastCall.ray).kind = "inf"
    /\ GroundCellComputed(lastCall.ray)
    /\ ~lastCall.ret.some

-----------------------------------------------------------------------------
(* Properties of the velocity in update_player_position *)

\* velocity + (target - velocity) * 3.0 * delta on one axis, v and target in
\* steps of 1 / Res per second
ApproachStep(v, target, delta) == v + MulDiv((target - v) * 3, delta, Sec)

\* lerp(v, 0, 5.0 * delta) on one axis
FrictionStep(v, delta) == v + MulDiv(-v, 5 * delta, Sec)

\* C28: in a tick in which the player is not dashing after the trigger
\* test, the velocity becomes velocity + (target - velocity) * 3.0 * delta
\* with target = (movement.x, 0, movement.y) * movement_speed * 1.5, and,
\* exactly when the target is zero, then lerp(velocity, 0, 5.0 * delta).  In
\* a tick of a dash neither step changes the velocity.
VelocityOutsideDash ==
    lastCall.op = "tick" =>
        \A id \in DOMAIN lastCall.trace :
            LET t == lastCall.trace[id]
                d == lastCall.delta
                v == t.triggered.velocity
                target == <<(t.movement[1] * 5 * Res * 3) \div 2, 0,
                            (t.movement[2] * 5 * Res * 3) \div 2>>
                approached == [a \in 1..3 |-> ApproachStep(v[a], target[a], d)]
            IN  IF ~t.triggered.is_dashing
                THEN /\ ~t.ended.is_dashing
                     /\ \A a \in 1..3 :
                           t.ended.velocity[a] =
                               IF target = Vec3Zero
                               THEN FrictionStep(approached[a], d)
                               ELSE approached[a]
                ELSE t.ended.is_dashing => t.ended.velocity = v

\* A tick with a movement input that starts from a velocity across it: the
\* velocity approaches the target on both axes and no friction is applied.
TurnWithoutFrictionSeen ==
    /\ lastCall.op = "tick"
    /\ \E id \in DOMAIN lastCall.trace :
          LET t == lastCall.trace[id]
          IN  /\ ~t.triggered.is_dashing
              /\ t.movement = <<0, -1>>
              /\ t.triggered.velocity[1] > 0
              /\ t.ended.velocity[1] =
                    ApproachStep(t.triggered.velocity[1], 0, lastCall.delta)
              /\ t.ended.velocity[1] > 0
              /\ t.ended.velocity[3] < t.triggered.velocity[3]

\* C29: from the tick that starts a dash on, as long as is_dashing is set,
\* the velocity is dash_direction * 15.0 whatever the movement input of the
\* tick is, and dash_direction is the one of the dash start.
DashVelocityConstant ==
    /\ \A id \in DOMAIN players :
          players[id].is_dashing =>
              players[id].velocity = Vec3Scale(players[id].dash_direction, 15, 1)
    /\ lastCall.op = "tick" =>
          \A id \in DOMAIN lastCall.trace :
              LET t == lastCall.trace[id]
              IN  (t.start.is_dashing /\ t.final.is_dashing) =>
                      /\ t.final.dash_direction = t.start.dash_direction
                      /\ t.final.velocity = t.start.velocity

\* A tick of a running dash along x whose movement input is along z and
\* after which the dash runs on.
DashAcrossInputSeen ==
    /\ lastCall.op = "tick"
    /\ \E id \in DOMAIN lastCall.trace :
          LET t == lastCall.trace[id]
          IN  /\ t.start.is_dashing
              /\ t.start.dash_direction = <<Res, 0, 0>>
              /\ t.movement = <<0, -1>>
              /\ t.moving /\ ~t.collision.some
              /\ t.final.is_dashing
              /\ t.final.velocity = <<15 * Res, 0, 0>>

-----------------------------------------------------------------------------
(* Properties of the edits of handle_voxel_input *)

\* The cells of the grid whose type differs between the grids w0 and w
ChangedCells(w0, w) ==
    {c \in Cells : GetVoxel(w, c[1], c[2], c[3]) # GetVoxel(w0, c[1], c[2], c[3])}

\* w is w0, or differs from it in the type of cells of cs only
ChangedWithin(w0, w, cs) ==
    /\ ChangedCells(w0, w) \subseteq cs
    /\ ChangedCells(w0, w) = {} => w = w0

\* The axes on which the normal is largest
DominantAxes(normal) ==
    {a \in 1..3 : \A b \in 1..3 : Abs(normal[a]) >= Abs(normal[b])}

\* The cell one step from c along axis a, on the side of the sign of n
StepAlong(c, a, n) ==
    [c EXCEPT ![a] = IF n > 0 THEN @ + 1 ELSE IF n < 0 THEN @ - 1 ELSE @]

\* The box of some player is nearer to the corner of cell c than
\* size/2 + voxel_size/2 on all three axes
OverlapsPlayer(w, ps, c) ==
    \E id \in DOMAIN ps :
        \A a \in 1..3 :
            2 * Abs(ps[id].position[a] - c[a] * w.voxel_size)
                < ps[id].size[a] + w.voxel_size

\* A call of handle_voxel_input with the editor active and a picked cell
\* in which the left button is pressed, in build mode or not
LeftClickCall(build_mode) ==
    /\ lastCall.op = "edit_call"
    /\ lastCall.active
    /\ lastCall.pick.some
    /\ lastCall.left = "pressed"
    /\ lastCall.build_mode = build_mode

\* C21: a left click in build mode on a picked cell that is not Empty leaves
\* that cell as it is, and changes at most the cell one step from it along
\* an axis on which the hit normal is largest, on the side of the normal's
\* sign.
BuildOnFaceNeighbour ==
    (LeftClickCall(TRUE)
       /\ GetVoxel(lastCall.world, lastCall.pick.cell[1], lastCall.pick.cell[2],
                   lastCall.pick.cell[3]) # Empty)
    => LET c == lastCall.pick.cell
           n == lastCall.pick.normal
       IN  /\ GetVoxel(world, c[1], c[2], c[3])
                 = GetVoxel(lastCall.world, c[1], c[2], c[3])
           /\ \E a \in DominantAxes(n) :
                 ChangedWithin(lastCall.world, world, {StepAlong(c, a, n[a])})

\* A click on the +x face of a voxel that places a voxel in the cell one
\* step along x.
BuildOnPlusXFaceSeen ==
    /\ LeftClickCall(TRUE)
    /\ lastCall.pick.normal = <<1, 0, 0>>
    /\ ChangedCells(lastCall.world, world)
          = {<<lastCall.pick.cell[1] + 1, lastCall.pick.cell[2], lastCall.pick.cell[3]>>}

\* C22: a call of handle_voxel_input in build mode changes the grid only by
\* one cell that is in bounds, was Empty and overlaps no player's box.
BuildPlacementGuarded ==
    (lastCall.op = "edit_call" /\ lastCall.build_mode /\ world # lastCall.world)
    => \E m \in Cells :
          /\ ChangedCells(lastCall.world, world) = {m}
          /\ InBounds(lastCall.world, m)
          /\ GetVoxel(lastCall.world, m[1], m[2], m[3]) = Empty
          /\ GetVoxel(world, m[1], m[2], m[3]) # Empty
          /\ ~OverlapsPlayer(lastCall.world, players, m)

\* A click on the top face of a floor voxel under a player: the cell above
\* is in bounds and Empty, the player's box overlaps it, and the grid is
\* unchanged.
BuildRefusedForPlayerSeen ==
    /\ LeftClickCall(TRUE)
    /\ lastCall.pick.normal = <<0, 1, 0>>
    /\ LET m == <<lastCall.pick.cell[1], lastCall.pick.cell[2] + 1, lastCall.pick.cell[3]>>
       IN  /\ GetVoxel(lastCall.world, lastCall.pick.cell[1], lastCall.pick.cell[2],
                       lastCall.pick.cell[3]) # Empty
           /\ InBounds(world, m)
           /\ GetVoxel(lastCall.world, m[1], m[2], m[3]) = Empty
           /\ OverlapsPlayer(world, players, m)
    /\ world = lastCall.world
    /\ nwrites < MaxWrites

\* C23: the voxel a build edit places is Ground if its y is 0 or below the
\* y of the position of player 0 (1.0 when there is no player 0), and Wall
\* otherwise.
PlacedTypeByHeight ==
    (lastCall.op = "edit_call" /\ lastCall.build_mode)
    => \A m \in ChangedCells(lastCall.world, world) :
          LET height == IF 0 \in DOMAIN players THEN players[0].position[2] ELSE Res
          IN  GetVoxel(world, m[1], m[2], m[3])
                = IF m[2] = 0 \/ m[2] * Res < height THEN Ground ELSE Wall

\* A voxel placed at the height of player 0: a Wall.
WallPlacedAtPlayerHeightSeen ==
    /\ lastCall.op = "edit_call"
    /\ lastCall.build_mode
    /\ 0 \in DOMAIN players
    /\ \E m \in ChangedCells(lastCall.world, world) :
          /\ m[2] * Res = players[0].position[2]
          /\ GetVoxel(world, m[1], m[2], m[3]) = Wall

\* C24: a left click in remove mode changes the grid at the picked cell
\* only.  If that cell is not Empty and overlaps no player's box, get_voxel
\* of it is Empty afterwards; if it is Empty or overlaps a player's box the
\* grid is unchanged.
RemoveAtPickedCell ==
    LeftClickCall(FALSE)
    => LET c == lastCall.pick.cell
       IN  /\ ChangedWithin(lastCall.world, world, {c})
           /\ IF /\ GetVoxel(lastCall.world, c[1], c[2], c[3]) # Empty
                 /\ ~OverlapsPlayer(lastCall.world, players, c)
              THEN GetVoxel(world, c[1], c[2], c[3]) = Empty
              ELSE world = lastCall.world

\* A click in remove mode on a face across which a voxel is stored: the
\* picked voxel is removed and the one across the face stays.
RemoveKeepsNeighbourSeen ==
    /\ LeftClickCall(FALSE)
    /\ LET c == lastCall.pick.cell
           n == FaceNeighbour(c[1], c[2], c[3], lastCall.pick.normal)
       IN  /\ GetVoxel(lastCall.world, c[1], c[2], c[3]) # Empty
           /\ GetVoxel(world, c[1], c[2], c[3]) = Empty
           /\ GetVoxel(world, n[1], n[2], n[3]) # Empty

\* A click in remove mode on a Wall that the box of a player overlaps: the
\* grid is unchanged.
RemoveRefusedForPlayerSeen ==
    /\ LeftClickCall(FALSE)
    /\ GetVoxel(lastCall.world, lastCall.pick.cell[1], lastCall.pick.cell[2],
                lastCall.pick.cell[3]) = Wall
    /\ OverlapsPlayer(world, players, lastCall.pick.cell)
    /\ world = lastCall.world

-----------------------------------------------------------------------------
(* Properties of update_player_position over all players *)

\* The entries of player_inputs in every order
Reorderings(inputs) ==
    {[i \in 1..Len(inputs) |-> inputs[q[i]]] :
        q \in {f \in [1..Len(inputs) -> 1..Len(inputs)] :
                 \A i, j \in 1..Len(inputs) : i # j => f[i] # f[j]}}

\* The movement stored for player id
MovementOf(inputs, id) ==
    LET i == CHOOSE k \in 1..Len(inputs) : inputs[k].id = id
    IN  inputs[i].movement

\* C26: update_player_position goes through the players in the order of
\* their ids, which is the order in which their inputs were inserted.
PlayersProcessedInIdOrder ==
    lastCall.op = "position" =>
        \A i, j \in 1..Len(player_inputs) :
            (/\ i < j
             /\ player_inputs[i].id \in DOMAIN lastCall.trace
             /\ player_inputs[j].id \in DOMAIN lastCall.trace)
            => player_inputs[i].id < player_inputs[j].id

\* A call that updates the player of the first gamepad before the keyboard
\* player.
GamepadPlayerProcessedFirstSeen ==
    /\ lastCall.op = "position"
    /\ DOMAIN lastCall.trace = {0, 1}
    /\ IdsOf(player_inputs) = <<1, 0>>

\* C27: the state of a player after update_player_position is that of the
\* loop body on its own state before the call, its own stored movement and
\* dash request, delta and the grid; it is the same for every order of
\* iteration, and when another player is put at the place this player
\* arrives at or back to the spawn state.
PlayersIndependent ==
    lastCall.op = "position" =>
        /\ \A id \in DOMAIN lastCall.trace :
              /\ players[id] =
                    UpdatePlayer(world, lastCall.players[id],
                                 MovementOf(player_inputs, id),
                                 IF id = 0 THEN lastCall.shift_pressed
                                           ELSE lastCall.triggers[id - 1],
                                 lastCall.delta).final
              /\ \A o \in DOMAIN lastCall.players \ {id} :
                    \A alt \in {[lastCall.players[o] EXCEPT
                                     !.position = players[id].position],
                                 SpawnedPlayer(world)} :
                        UpdatePlayerPositionOp(world,
                            [lastCall.players EXCEPT ![o] = alt], player_inputs,
                            lastCall.shift_pressed, lastCall.triggers,
                            lastCall.delta).players[id] = players[id]
        /\ \A q \in Reorderings(player_inputs) :
              UpdatePlayerPositionOp(world, lastCall.players, q,
                                     lastCall.shift_pressed, lastCall.triggers,
                                     lastCall.delta).players = players
        /\ \A id \in DOMAIN players \ DOMAIN lastCall.trace :
              players[id] = lastCall.players[id]

\* Two players whose boxes overlap before the call: one starts a dash, the
\* other walks, and both arrive at their candidate positions.
OverlappingPlayersMoveSeen ==
    /\ lastCall.op = "position"
    /\ DOMAIN lastCall.trace = {0, 1}
    /\ \A a \in 1..3 :
          2 * Abs(lastCall.players[0].position[a] - lastCall.players[1].position[a])
              < lastCall.players[0].size[a] + lastCall.players[1].size[a]
    /\ \E id \in {0, 1} :
          /\ lastCall.trace[id].triggered.is_dashing
          /\ ~lastCall.trace[id].start.is_dashing
          /\ ~lastCall.trace[1 - id].triggered.is_dashing
    /\ \A id \in {0, 1} :
          /\ lastCall.trace[id].moving
          /\ ~lastCall.trace[id].collision.some
          /\ players[id].position = lastCall.trace[id].candidate
          /\ players[id].position # lastCall.players[id].position

-----------------------------------------------------------------------------
(* Properties of update *)

\* The editor after the M key of the frame in lastCall
EditorAfterToggle ==
    IF lastCall.in.m_pressed
    THEN [lastCall.editor EXCEPT !.active = ~@]
    ELSE lastCall.editor

\* C30: one frame reads the inputs, joins included, then moves the players,
\* then edits.  Every player with an input, one created in this frame
\* included, is updated from its state after the inputs were read and with
\* the movement read in this frame; its collision check is made on the grid
\* as it was before the edit of this frame; and the edit is made with the
\* players where the movement of this frame has put them.
FramePhasesInOrder ==
    lastCall.op = "update" =>
        /\ DOMAIN lastCall.trace = DOMAIN players
        /\ DOMAIN lastCall.players \subseteq DOMAIN players
        /\ \A id \in DOMAIN players :
              LET t == lastCall.trace[id]
              IN  /\ t.start = IF id \in DOMAIN lastCall.players
                               THEN lastCall.players[id]
                               ELSE SpawnedPlayer(lastCall.world)
                  /\ id = 0 => t.movement = lastCall.in.keys
                  /\ t.moving =>
                        t.collision = CheckVoxelCollision(lastCall.world, t.candidate,
                                                          t.start.size)
                  /\ players[id] = t.final
        /\ \E r \in {HandleVoxelInputOp(lastCall.world, players, EditorAfterToggle,
                                         lastCall.in.pick, lastCall.in.left,
                                         lastCall.in.right_pressed, lastCall.in.ctrl)} :
              world = r.world /\ editor = r.editor

\* A frame that creates a player, moves it to a position free on the grid
\* of before the frame, and removes a floor voxel under it: on the grid of
\* after the frame the check of the same position reports a collision.
EditUnseenByMotionOfFrameSeen ==
    /\ lastCall.op = "update"
    /\ \E id \in DOMAIN players \ DOMAIN lastCall.players :
          LET t == lastCall.trace[id]
          IN  /\ t.moving /\ ~t.collision.some
              /\ players[id].position = t.candidate
              /\ players[id].position # SpawnedPlayer(lastCall.world).position
              /\ CheckVoxelCollision(world, t.candidate, t.start.size).some
    /\ world # lastCall.world

\* A frame that creates a player and moves it, and whose click places a
\* voxel in a cell that overlaps the box of that player at the spawn
\* position and not at the position the frame has moved it to.
EditSeesPlayerOfFrameSeen ==
    /\ lastCall.op = "update"
    /\ lastCall.in.left = "pressed"
    /\ editor.build_mode
    /\ \E m \in Cells :
          /\ ChangedCells(lastCall.world, world) = {m}
          /\ \E id \in DOMAIN players \ DOMAIN lastCall.players :
                /\ id \in DOMAIN lastCall.spawned
                /\ OverlapsPlayer(world, lastCall.spawned, m)
                /\ ~OverlapsPlayer(world, players, m)

-----------------------------------------------------------------------------
(* Properties of the player map *)

\* The ids that have an entry in player_inputs
InputIds(inputs) == {inputs[i].id : i \in 1..Len(inputs)}

PositionUpdatesJoinedPlayers ==
    [][lastCall'.op = "position" =>
          /\ DOMAIN lastCall'.trace = InputIds(player_inputs) \cap DOMAIN players
          /\ DOMAIN players' = DOMAIN players
          /\ \A id \in DOMAIN players \ DOMAIN lastCall'.trace :
                players'[id] = players[id]
          /\ \A id \in DOMAIN lastCall'.trace :
                /\ lastCall'.trace[id].start = players[id]
                /\ players'[id] = lastCall'.trace[id].final
          /\ player_inputs' = player_inputs
          /\ world' = world]_vars

\* A call with the keyboard player in the map and the entry of a gamepad
\* that has no player yet: the keyboard player moves, no player is added.
InputWithoutPlayerSeen ==
    /\ lastCall.op = "position"
    /\ InputIds(player_inputs) = {0, 1}
    /\ DOMAIN players = {0}
    /\ DOMAIN lastCall.trace = {0}
    /\ players[0].position # lastCall.players[0].position

-----------------------------------------------------------------------------
(* Properties of the editor switch *)

\* C33: a call of handle_voxel_input with the editor not active leaves the
\* grid as it was, whatever the picked cell, the mode, the buttons and the
\* control key are; hovered_voxel is still stored, a cell exactly when a
\* cell is picked.
InactiveEditorKeepsGrid ==
    (lastCall.op = "edit_call" /\ ~lastCall.active)
    => /\ world = lastCall.world
       /\ lastCall.hovered.some <=> lastCall.pick.some

\* A call with the editor not active, in remove mode, with the control key
\* and the left button pressed on a Wall that no player occupies: the Wall
\* is the hovered voxel and stays.
InactiveRemoveClickSeen ==
    /\ lastCall.op = "edit_call"
    /\ ~lastCall.active
    /\ ~lastCall.build_mode
    /\ lastCall.ctrl
    /\ lastCall.left = "pressed"
    /\ lastCall.pick.some
    /\ lastCall.hovered = [some |-> TRUE, cell |-> lastCall.pick.cell]
    /\ GetVoxel(world, lastCall.pick.cell[1], lastCall.pick.cell[2],
                lastCall.pick.cell[3]) = Wall
    /\ ~IsVoxelOccupiedByPlayer(world, players, lastCall.pick.cell[1],
                                lastCall.pick.cell[2], lastCall.pick.cell[3])

\* A call with the editor not active, in build mode, with the left button
\* pressed on a voxel: the hovered voxel is the Empty cell across the hit
\* face, and it stays Empty.
InactiveBuildClickSeen ==
    /\ lastCall.op = "edit_call"
    /\ ~lastCall.active
    /\ lastCall.build_mode
    /\ lastCall.left = "pressed"
    /\ lastCall.pick.some
    /\ lastCall.hovered.some
    /\ lastCall.hovered.cell # lastCall.pick.cell
    /\ InBounds(world, lastCall.hovered.cell)
    /\ GetVoxel(world, lastCall.hovered.cell[1], lastCall.hovered.cell[2],
                lastCall.hovered.cell[3]) = Empty
    /\ ~IsVoxelOccupiedByPlayer(world, players, lastCall.hovered.cell[1],
                                lastCall.hovered.cell[2], lastCall.hovered.cell[3])

-----------------------------------------------------------------------------
(* Properties of the players on the grid *)

\* C34: in every state no Wall overlaps the box of a player.
NoPlayerInsideWall ==
    \A id \in DOMAIN players :
        WallsOverlapping(world, players[id].position, players[id].size) = {}

\* The keyboard player spawned at the centre of the grid, where an earlier
\* click has placed a Wall: the call that spawned it found the Wall in
\* place, and check_voxel_collision reports that Wall at the player's
\* position.
PlayerSpawnedInsideWallSeen ==
    /\ lastCall.op = "spawn"
    /\ 0 \in DOMAIN players
    /\ players[0].position = SpawnPosition(world)
    /\ WallsOverlapping(world, players[0].position, players[0].size) # {}
    /\ LET r == CheckVoxelCollision(world, players[0].position, players[0].size)
       IN  r.some /\ r.voxel_type = Wall

\* C38: every Ground voxel of the grid is in layer y = 0 and every Wall is
\* in a layer y >= 1.
GroundAtFloorWallsAbove ==
    \A c \in Cells :
        /\ GetVoxel(world, c[1], c[2], c[3]) = Ground => c[2] = 0
        /\ GetVoxel(world, c[1], c[2], c[3]) = Wall => c[2] >= 1

\* A click in build mode that fills an emptied cell of layer 0, which gets
\* Ground, on a grid that has a Wall in layer 1 or no longer all of its
\* floor.
FloorCellRebuiltSeen ==
    /\ LeftClickCall(TRUE)
    /\ \E c \in Cells :
          /\ c[2] = 0
          /\ GetVoxel(lastCall.world, c[1], c[2], c[3]) = Empty
          /\ GetVoxel(world, c[1], c[2], c[3]) = Ground

\* A click in build mode that places a voxel above layer 0 while a player
\* is in the map: the voxel is a Wall.
WallBuiltAboveFloorSeen ==
    /\ LeftClickCall(TRUE)
    /\ 0 \in DOMAIN players
    /\ \E c \in Cells :
          /\ c[2] >= 1
          /\ GetVoxel(lastCall.world, c[1], c[2], c[3]) = Empty
          /\ GetVoxel(world, c[1], c[2], c[3]) = Wall

\* Cells at bottom_y, between the floor and the ceiling of the box centre on
\* x and z (the cells check_voxel_collision examines), that are not Ground
CentreCellsUnsupported(w, position, size) ==
    {c \in (Floor(position[1], w.voxel_size)..Ceil(position[1], w.voxel_size))
           \X {BottomY(w, position, size)}
           \X (Floor(position[3], w.voxel_size)..Ceil(position[3], w.voxel_size)) :
        GetVoxel(w, c[1], c[2], c[3]) # Ground}

\* C35: in every state every player has ground support: the cells under it
\* at bottom_y are Ground (stated on the cells between the floor and the
\* ceiling of the box centre, the fewest the footprint can mean).
PlayersGroundSupported ==
    \A id \in DOMAIN players :
        CentreCellsUnsupported(world, players[id].position, players[id].size) = {}

\* A frame whose click in remove mode takes away a Ground voxel under a
\* player that was in the map before the frame: after the frame the check
\* of the player's own position reports that cell.
GroundRemovedUnderPlayerSeen ==
    /\ lastCall.op = "update"
    /\ lastCall.in.left = "pressed"
    /\ ~editor.build_mode
    /\ \E id \in DOMAIN lastCall.players, c \in Cells :
          /\ ChangedCells(lastCall.world, world) = {c}
          /\ GetVoxel(lastCall.world, c[1], c[2], c[3]) = Ground
          /\ CentreCellsUnsupported(lastCall.world, players[id].position,
                                    players[id].size) = {}
          /\ CentreCellsUnsupported(world, players[id].position,
                                    players[id].size) = {c}
          /\ ~IsVoxelOccupiedByPlayer(lastCall.world, players, c[1], c[2], c[3])
          /\ LET r == CheckVoxelCollision(world, players[id].position,
                                          players[id].size)
             IN  r.some /\ r.position = c

\* What the code keeps: a move is committed only to a position whose cells
\* between the floor and the ceiling of the centre are Ground on the grid of
\* that call.
CommittedMoveHasGround ==
    lastCall.op = "update" =>
        \A id \in DOMAIN lastCall.trace :
            LET t == lastCall.trace[id]
            IN  (t.moving /\ ~t.collision.some) =>
                    /\ t.final.position = t.candidate
                    /\ CentreCellsUnsupported(lastCall.world, t.candidate,
                                              t.start.size) = {}

\* C36: the floor and the ceiling of every player's position on x and on z
\* are cell indices of the grid.
PlayersInsideGrid ==
    \A id \in DOMAIN players :
        /\ 0 <= Floor(players[id].position[1], world.voxel_size)
        /\ Ceil(players[id].position[1], world.voxel_size) < world.width
        /\ 0 <= Floor(players[id].position[3], world.voxel_size)
        /\ Ceil(players[id].position[3], world.voxel_size) < world.depth

\* A player that has left the spawn position, in a tick whose candidate
\* position is beyond the last cell of the grid on x or z: the check
\* reports a collision and the player stays.
PlayerStoppedAtEdgeSeen ==
    /\ lastCall.op = "tick"
    /\ \E id \in DOMAIN lastCall.trace :
          LET t == lastCall.trace[id]
          IN  /\ t.start.position # SpawnPosition(world)
              /\ t.moving
              /\ \/ Ceil(t.candidate[1], world.voxel_size) >= world.width
                 \/ Floor(t.candidate[3], world.voxel_size) < 0
              /\ t.collision.some
              /\ players[id].position = t.start.position

\* C37: velocity.y, dash_direction.y and pre_dash_velocity.y of every player
\* are 0 and position.y is 1.0.
VerticalStateFixed ==
    \A id \in DOMAIN players :
        /\ players[id].velocity[2] = 0
        /\ players[id].dash_direction[2] = 0
        /\ players[id].pre_dash_velocity[2] = 0
        /\ players[id].position[2] = Res

\* A player that has moved on x and on z and has started a dash while
\* moving.
MovedAndDashedSeen ==
    \E id \in DOMAIN players :
        /\ players[id].position[1] # SpawnPosition(world)[1]
        /\ players[id].position[3] # SpawnPosition(world)[3]
        /\ players[id].dash_direction # Vec3Zero
        /\ players[id].pre_dash_velocity # Vec3Zero
        /\ players[id].velocity # Vec3Zero

\* C39: after every tick dash_cooldown is at most 0.8, and a player that is
\* dashing has 0.6 < dash_cooldown <= 0.8.
DashCooldownBounded ==
    \A id \in DOMAIN players :
        /\ players[id].dash_cooldown <= DashCooldownTime
        /\ players[id].is_dashing =>
              /\ DashActiveUntil < players[id].dash_cooldown
              /\ players[id].dash_cooldown <= DashCooldownTime

\* A player still dashing after the tick that follows the one in which the
\* dash started.
StillDashingAfterSecondTickSeen ==
    /\ lastCall.op = "tick"
    /\ \E id \in DOMAIN lastCall.trace :
          LET t == lastCall.trace[id]
          IN  /\ t.start.is_dashing
              /\ t.final.is_dashing
              /\ players[id].dash_cooldown < t.start.dash_cooldown
              /\ players[id].dash_cooldown > DashActiveUntil

\* The dash of player id ended in the tick whose steps are t because the
\* cooldown reached 0.6
DashTimedOut(t) == t.triggered.is_dashing /\ ~t.ended.is_dashing

\* C40: when a dash ends, each component of the velocity the blend leaves
\* lies between that of the dash velocity and that of pre_dash_velocity.
DashEndBlendsBetween ==
    lastCall.op = "tick" =>
        \A id \in DOMAIN lastCall.trace :
            LET t == lastCall.trace[id]
            IN  DashTimedOut(t) =>
                    \A a \in 1..3 :
                        /\ Min(t.triggered.velocity[a], t.triggered.pre_dash_velocity[a])
                               <= t.ended.velocity[a]
                        /\ t.ended.velocity[a]
                               <= Max(t.triggered.velocity[a],
                                      t.triggered.pre_dash_velocity[a])

\* A dash along +x from rest that ends in a tick that leaves the cooldown
\* 0.03 or more below 0.6: the lerp amount is 5 and the velocity goes from
\* 15 to -60.
DashEndOvershootSeen ==
    /\ lastCall.op = "tick"
    /\ \E id \in DOMAIN lastCall.trace :
          LET t == lastCall.trace[id]
          IN  /\ DashTimedOut(t)
              /\ t.triggered.pre_dash_velocity = Vec3Zero
              /\ t.triggered.velocity = <<DashSpeed * Res, 0, 0>>
              /\ t.ended.dash_cooldown <= DashActiveUntil - TransitionTime
              /\ t.ended.velocity = <<-4 * DashSpeed * Res, 0, 0>>

\* What the code does: the velocity the blend leaves lies between the dash
\* velocity and the point five times as far from it as pre_dash_velocity.
DashEndBlendUpToFivefold ==
    lastCall.op = "tick" =>
        \A id \in DOMAIN lastCall.trace :
            LET t == lastCall.trace[id]
            IN  DashTimedOut(t) =>
                    \A a \in 1..3 :
                        LET v == t.triggered.velocity[a]
                            far == v + 5 * (t.triggered.pre_dash_velocity[a] - v)
                        IN  /\ Min(v, far) <= t.ended.velocity[a]
                            /\ t.ended.velocity[a] <= Max(v, far)

=============================================================================
